---- MODULE Spec2Model ----
(***************************************************************************)
(* Subscriber/publisher lifecycle engine of faststream: the Kafka and      *)
(* Confluent consumption loops, the acknowledgment policy table, the       *)
(* fan-out queue, the create_subscriber factories, batch fetching, pull    *)
(* access, destination names, and the publishers with create_publisher.    *)
(***************************************************************************)
EXTENDS Integers, Sequences, FiniteSets, TLC

VARIABLES
    \* ---- create_subscriber factories ----
    call,       \* the keyword arguments of one create_subscriber call
    result,     \* what the call produced: pending, SetupError or a built subscriber
    \* ---- one subscriber and its consumption loop ----
    cfg,        \* backend, engine ack policy, max_workers: fixed at construction
    running,    \* SubscriberUsecase.running
    consumer,   \* "none" | "started" | "stopped": the client handle held
    pc,         \* where the _consume task is suspended
    connected,  \* the local flag of _consume
    stopped,    \* the client has reported itself permanently stopped
    msg,        \* the message _consume holds (0: none)
    fetched,    \* ids of the messages get_msg has returned, in order
    failures,   \* fetches that raised the transient error class
    sleeps,     \* completed anyio.sleep(5) calls
    clock,      \* time spent in backoff sleeps
    queue,      \* fan-out queue between _put_msg and the workers
    enqueued,   \* ids pushed to the queue, in order
    inflight,   \* executions of consume(msg) under way: [m, stage, ok]
    outcome,    \* per message: "none" | "ok" | "fail", the handler outcome
    done,       \* messages whose consume(msg) has completed
    log,        \* handler invocations and engine-issued ack/nack, in order
    startResult,\* "none" | "ok" | "AssertionError": how start() ended
    closing,    \* "idle" | "draining" | "done": progress of close()
    closedWith, \* the messages whose consume(msg) was under way when close() began
    stops,      \* how many times consumer.stop() has been called
    closes,     \* how many times close() has been called
    leaked,     \* consumers that start() replaced in self.consumer without a stop
    extraTasks, \* live _consume tasks besides the one pc follows
    source,     \* pull access: the messages the backend holds, oldest first
    pull,       \* pull access: the get_one / iterator call under way
    taken,      \* pull access: the messages removed from the backend, in order
    given,      \* pull access: the messages returned or yielded to the caller
    ent,        \* naming: the subscriber or publisher with its declared destinations
    orig,       \* naming: the same as constructed
    prefixes,   \* naming: the arguments of the add_prefix calls, in call order
    bound,      \* naming: the names the started consumer was opened with
    bat,        \* batch mode: the last getmany() result and the envelope built from it
    publisher,  \* publishing: what create_publisher produced
    cmd,        \* publishing: the command the last call built
    cids,       \* publishing: the correlation ids of the commands built, in call order
    gen,        \* publishing: how many ids gen_cor_id() has produced
    req,        \* publishing: the request() call under way
    part,       \* publishing: one choice of the partition of a command
    nats,       \* NATS core subscriber: its fields
    ncall,      \* NATS core subscriber: where each caller of its methods stands
    nlog,       \* NATS client: the subscriptions created, the reads and the pushes
    trace,      \* Kafka start(): the calls made on the consumer and the task list
    spc         \* Kafka start(): the statement start() has reached

facVars == <<call, result>>

subVars == <<cfg, running, consumer, pc, connected, stopped, msg, fetched,
             failures, sleeps, clock, queue, enqueued, inflight, outcome,
             done, log>>

lifeVars == <<startResult, closing, closedWith, stops, closes, leaked, extraTasks>>

\* what the actions of one part of the model leave alone
pullVars == <<source, pull, taken, given>>

nameVars == <<ent, orig, prefixes, bound>>

pubVars == <<publisher, cmd, cids, gen, req>>

natsVars == <<nats, ncall, nlog>>

bindVars == <<trace, spc>>

extVars == <<bat, pubVars, part, natsVars, bindVars>>

outsideSub == <<facVars, pullVars, nameVars, extVars>>

outsideFac == <<subVars, lifeVars, pullVars, nameVars, extVars>>

outsidePull == <<facVars, nameVars, extVars>>

outsideNames == <<facVars, subVars, lifeVars, pullVars, extVars>>

vars == <<call, result, cfg, running, consumer, pc, connected, stopped, msg,
          fetched, failures, sleeps, clock, queue, enqueued, inflight,
          outcome, done, log, startResult, closing, closedWith,
          stops, closes, leaked, extraTasks,
          source, pull, taken, given, ent, orig, prefixes, bound,
          bat, publisher, cmd, cids, gen, req, part, nats, ncall, nlog, trace, spc>>

(***************************************************************************)
(* Bounds                                                                  *)
(***************************************************************************)
\* largest max_workers argument handed to a factory
MaxWorkersArg == 3
\* largest max_workers of a running subscriber
MaxWorkers == 2
\* messages the broker delivers to a sequential subscriber in one behaviour
MaxMsgs == 3
\* messages the broker delivers to a fan-out subscriber in one behaviour
MaxFanoutMsgs == 2
\* transient fetch errors in one behaviour
MaxFailures == 2

(***************************************************************************)
(* Ack policies.  EMPTY is the "caller did not specify" sentinel.          *)
(***************************************************************************)
EMPTY == "EMPTY"

AckPolicy == {"ACK_FIRST", "REJECT_ON_ERROR", "MANUAL", "DO_NOTHING"}

\* a deprecated boolean toggle: unset, True or False
Toggle == {EMPTY, "True", "False"}

(***************************************************************************)
(* confluent/subscriber/factory.py                                         *)
(***************************************************************************)

\* variant of ResolveAutoCommit with the two branches of the conditional swapped
ResolveAutoCommitSwapped(ack_policy, auto_commit) ==
    IF auto_commit # EMPTY
    THEN (IF auto_commit = "True" THEN "REJECT_ON_ERROR" ELSE "ACK_FIRST")
    ELSE ack_policy

\* `ack_policy = ACK_FIRST if auto_commit else REJECT_ON_ERROR` under
\* `if auto_commit is not EMPTY`
ResolveAutoCommit(ack_policy, auto_commit) ==
    IF auto_commit # EMPTY
    THEN (IF auto_commit = "True" THEN "ACK_FIRST" ELSE "REJECT_ON_ERROR")
    ELSE ack_policy

\* `ack_policy = DO_NOTHING if no_ack else EMPTY` under `if no_ack is not EMPTY`
ResolveNoAck(ack_policy, no_ack) ==
    IF no_ack # EMPTY
    THEN (IF no_ack = "True" THEN "DO_NOTHING" ELSE EMPTY)
    ELSE ack_policy

\* `if ack_policy is EMPTY: ack_policy = ACK_FIRST`
ResolveDefault(ack_policy) ==
    IF ack_policy = EMPTY THEN "ACK_FIRST" ELSE ack_policy

\* the policy create_subscriber has resolved when it reaches line 157
ConfluentResolve(ack_policy, auto_commit, no_ack) ==
    ResolveDefault(ResolveNoAck(ResolveAutoCommit(ack_policy, auto_commit), no_ack))

\* the last check of _validate_input_for_misconfigure, as written:
\* `AckPolicy.ACK_FIRST is not AckPolicy.ACK_FIRST and max_workers > 1`
MaxWorkersMisconfigured(ack_policy, max_workers) ==
    "ACK_FIRST" # "ACK_FIRST" /\ max_workers > 1

\* _validate_input_for_misconfigure: TRUE when it raises SetupError.  The
\* local ack_policy is reassigned between the checks, as in the source.
ConfluentValidateRaises(ack_policy, auto_commit, no_ack, max_workers) ==
    LET ap1 == ResolveAutoCommit(ack_policy, auto_commit)
        ap2 == ResolveNoAck(ap1, no_ack)
        ap3 == ResolveDefault(ap2)
    IN  \/ auto_commit # EMPTY /\ ack_policy # EMPTY
        \/ no_ack # EMPTY /\ ap1 # EMPTY
        \/ MaxWorkersMisconfigured(ap3, max_workers)

\* `connection_data["enable_auto_commit"] = True` is executed exactly under
\* `if ack_policy is AckPolicy.ACK_FIRST`
EnableAutoCommit(resolved) == resolved = "ACK_FIRST"

\* variant of EnginePolicy without the `ack_policy = DO_NOTHING` assignment
EnginePolicyKept(resolved) == resolved

\* the policy handed to ConfluentSubscriberBaseConfigs
EnginePolicy(resolved) ==
    IF resolved = "ACK_FIRST" THEN "DO_NOTHING" ELSE resolved

\* variant of ConfluentVariant that tests max_workers before batch
ConfluentVariantWorkersFirst(batch, max_workers) ==
    IF max_workers > 1 THEN "Concurrent"
    ELSE IF batch THEN "Batch"
    ELSE "Default"

\* confluent/subscriber/usecase.py, DefaultSubscriber.__init__ and
\* BatchSubscriber.__init__: `is_manual=... ack_policy is not AckPolicy.ACK_FIRST`
\* on the policy the configuration carries; ConcurrentDefaultSubscriber
\* inherits the __init__ of DefaultSubscriber
IsManual(variant, ack_policy) == ack_policy # "ACK_FIRST"

\* the tail of create_subscriber: which class is instantiated
ConfluentVariant(batch, max_workers) ==
    IF batch THEN "Batch"
    ELSE IF max_workers > 1 THEN "Concurrent"
    ELSE "Default"

(***************************************************************************)
(* rabbit/subscriber/factory.py                                            *)
(***************************************************************************)

\* _validate_input_for_misconfigure: TRUE when it raises SetupError
RabbitValidateRaises(ack_policy, no_ack) ==
    no_ack # EMPTY /\ ack_policy # EMPTY

\* the ack_policy keyword given to RabbitSubscriberBaseConfigs: the argument
\* itself, create_subscriber does not touch it
RabbitConfigPolicy(ack_policy, no_ack) == ack_policy

(***************************************************************************)
(* The factory calls as a state machine: one call per behaviour.           *)
(***************************************************************************)
Pending == [status |-> "pending", ack_policy |-> EMPTY, resolved |-> EMPTY,
            enable_auto_commit |-> FALSE, variant |-> "none", is_manual |-> FALSE]

SetupError == [status |-> "SetupError", ack_policy |-> EMPTY, resolved |-> EMPTY,
               enable_auto_commit |-> FALSE, variant |-> "none", is_manual |-> FALSE]

ConfluentCalls ==
    [backend : {"confluent"}, ack_policy : AckPolicy \cup {EMPTY},
     auto_commit : Toggle, no_ack : Toggle,
     max_workers : 1..MaxWorkersArg, batch : BOOLEAN]

\* the Rabbit factory has no auto_commit, max_workers or batch argument
RabbitCalls ==
    [backend : {"rabbit"}, ack_policy : AckPolicy \cup {EMPTY},
     auto_commit : {EMPTY}, no_ack : Toggle,
     max_workers : {1}, batch : {FALSE}]

\* a subscriber after construction and _setup: no client, no task, no I/O
SubFresh ==
    /\ running = FALSE
    /\ consumer = "none"
    /\ pc = "idle"
    /\ connected = TRUE
    /\ stopped = FALSE
    /\ msg = 0
    /\ fetched = <<>>
    /\ failures = 0
    /\ sleeps = 0
    /\ clock = 0
    /\ queue = <<>>
    /\ enqueued = <<>>
    /\ inflight = {}
    /\ outcome = [m \in 1..(MaxMsgs + MaxFanoutMsgs) |-> "none"]
    /\ done = {}
    /\ log = <<>>
    /\ startResult = "none"
    /\ closing = "idle"
    /\ closedWith = {}
    /\ stops = 0
    /\ closes = 0
    /\ leaked = 0
    /\ extraTasks = 0

\* the subscriber variables while only a factory call is examined
SubIdle ==
    /\ cfg = [backend |-> "kafka", policy |-> "DO_NOTHING", concurrent |-> FALSE,
              max_workers |-> 1, calls |-> FALSE, setup |-> FALSE, batch |-> FALSE]
    /\ SubFresh

\* `raw_message = None`
NoneMsg == [id |-> 0, data |-> "None"]

\* no get_one and no iteration has been called
NoPull == [op |-> "none", status |-> "idle", timeout |-> 0, elapsed |-> 0,
           phase |-> "none", raw |-> NoneMsg, value |-> 0, emptyAtCall |-> FALSE,
           ready |-> FALSE, n |-> 0, slow |-> 0]

\* the pull-access variables while no pull access is examined
PullIdle ==
    /\ source = <<>>
    /\ pull = NoPull
    /\ taken = <<>>
    /\ given = <<>>

\* no subscriber or publisher is examined for its names
NoEnt == [kind |-> "none", topics |-> <<>>, pattern |-> <<>>, partitions |-> <<>>,
          name |-> <<>>]

\* no consumer is open
Unbound == [active |-> FALSE, topics |-> <<>>, pattern |-> <<>>, partitions |-> <<>>]

\* the naming variables while no renaming is examined
NamesIdle ==
    /\ ent = NoEnt
    /\ orig = NoEnt
    /\ prefixes = <<>>
    /\ bound = Unbound

\* no batch subscriber has fetched
NoBatch == [result |-> <<>>, env |-> <<>>, records |-> 0, fetches |-> 0]

\* the batch variable while no batch subscriber is examined
BatIdle == bat = NoBatch

\* create_publisher has not been called
\* `headers=None`
NoneHeaders == [none |-> TRUE, d |-> {}]

\* `correlation_id=None`
NoneId == [kind |-> "none", n |-> 0]

NoPublisher == [kind |-> "none", key |-> "None", headers |-> {},
                arg |-> [batch |-> FALSE, key |-> "None", headers |-> NoneHeaders]]

\* no command has been built
NoCmd == [id |-> 0, type |-> "none", key |-> "None", headers |-> {},
          correlation_id |-> NoneId, timeout |-> 0,
          arg |-> [key |-> "None", headers |-> NoneHeaders, correlation_id |-> NoneId]]

\* no request() is under way
NoReq == [status |-> "idle", elapsed |-> 0, response |-> NoneId, published |-> FALSE]

\* the publishing variables while no publisher is examined
PubIdle ==
    /\ publisher = NoPublisher
    /\ cmd = NoCmd
    /\ cids = <<>>
    /\ gen = 0
    /\ req = NoReq

\* no partition is being chosen
NoPart == [op |-> "none", default |-> -1, arg |-> -1, status |-> "idle", partition |-> -1]

PartIdle == part = NoPart

\* no NATS subscriber is examined
NoNats == [policy |-> "DO_NOTHING", concurrent |-> FALSE, calls |-> FALSE,
           is_ack_disabled |-> FALSE, fetch_sub |-> 0, subscription |-> 0,
           workers |-> FALSE]

NoNatsLog == [subs |-> <<>>, reads |-> {}, pushed |-> 0, unserved |-> 0]

NatsIdle ==
    /\ nats = NoNats
    /\ ncall = <<>>
    /\ nlog = NoNatsLog

\* start() of no subscriber is followed statement by statement
BindIdle ==
    /\ trace = <<>>
    /\ spc = "idle"

\* the variables of the parts examined on their own
RestIdle == PartIdle /\ NatsIdle /\ BindIdle

InitFactory ==
    /\ call \in ConfluentCalls \cup RabbitCalls
    /\ result = Pending
    /\ SubIdle
    /\ PullIdle
    /\ NamesIdle
    /\ BatIdle
    /\ PubIdle
    /\ RestIdle

ConfluentCreateSubscriber ==
    /\ call.backend = "confluent"
    /\ result.status = "pending"
    /\ IF ConfluentValidateRaises(call.ack_policy, call.auto_commit,
                                  call.no_ack, call.max_workers)
       THEN result' = SetupError
       ELSE LET resolved == ConfluentResolve(call.ack_policy, call.auto_commit,
                                             call.no_ack)
            IN  result' = [status |-> "built",
                           ack_policy |-> EnginePolicy(resolved),
                           resolved |-> resolved,
                           enable_auto_commit |-> EnableAutoCommit(resolved),
                           variant |-> ConfluentVariant(call.batch, call.max_workers),
                           is_manual |->
                              IsManual(ConfluentVariant(call.batch, call.max_workers),
                                       EnginePolicy(resolved))]
    /\ UNCHANGED call
    /\ UNCHANGED outsideFac

RabbitCreateSubscriber ==
    /\ call.backend = "rabbit"
    /\ result.status = "pending"
    /\ IF RabbitValidateRaises(call.ack_policy, call.no_ack)
       THEN result' = SetupError
       ELSE result' = [status |-> "built",
                       ack_policy |-> RabbitConfigPolicy(call.ack_policy, call.no_ack),
                       resolved |-> call.ack_policy,
                       enable_auto_commit |-> FALSE,
                       variant |-> "Default",
                       is_manual |-> FALSE]
    /\ UNCHANGED call
    /\ UNCHANGED outsideFac

NextFactory ==
    \/ ConfluentCreateSubscriber
    \/ RabbitCreateSubscriber

SpecFactory == InitFactory /\ [][NextFactory]_vars

(***************************************************************************)
(* Ack Policy Engine: the table (policy, handler outcome) -> action.       *)
(***************************************************************************)
\* the pre-handler hook
AckPre(policy) == IF policy = "ACK_FIRST" THEN "ack" ELSE "none"

\* the post-handler hook
AckPost(policy, ok) ==
    IF policy = "REJECT_ON_ERROR" THEN (IF ok THEN "ack" ELSE "nack") ELSE "none"

\* the backend call an engine decision makes on message m
Issue(op, m) == IF op = "none" THEN <<>> ELSE <<[op |-> op, m |-> m]>>

(***************************************************************************)
(* kafka/subscriber/usecase.py and confluent/subscriber/usecase.py         *)
(***************************************************************************)
\* `await anyio.sleep(5)`
BackoffInterval == 5

Backends == {"kafka", "confluent"}

\* sequential subscribers, and fan-out subscribers with 1..MaxWorkers workers;
\* calls: a handler is registered; setup: _setup has bound the builder;
\* batch: the subscriber is of the batch class
Configs ==
    [backend : Backends, policy : AckPolicy, concurrent : {FALSE}, max_workers : {1},
     calls : BOOLEAN, setup : BOOLEAN, batch : {FALSE}]
    \cup
    [backend : Backends, policy : AckPolicy, concurrent : {TRUE},
     max_workers : 1..MaxWorkers, calls : BOOLEAN, setup : BOOLEAN, batch : {FALSE}]

\* how many messages the broker has for this subscriber
MsgBound(c) == IF c.concurrent THEN MaxFanoutMsgs ELSE MaxMsgs

\* the exception classes `_consume` tells apart
Transient(backend) == IF backend = "kafka" THEN "KafkaError" ELSE "KafkaException"

\* what a client that reports itself stopped raises from get_msg: aiokafka
\* raises ConsumerStoppedError; the Confluent client has no such class, a
\* closed consumer raises either its KafkaException or a RuntimeError
Terminal(backend) ==
    IF backend = "kafka" THEN {"ConsumerStoppedError"}
    ELSE {"KafkaException", "RuntimeError"}

\* variant of OnFetchError without the `except KafkaError` clause
OnFetchErrorUncaught(backend, exc) ==
    IF backend = "kafka" /\ exc = "ConsumerStoppedError" THEN "returned"
    ELSE "raised"

\* the except clauses of _consume: where the loop goes on exception class exc
OnFetchError(backend, exc) ==
    IF exc = Transient(backend) THEN "sleep"
    ELSE IF backend = "kafka" /\ exc = "ConsumerStoppedError" THEN "returned"
    ELSE "raised"

\* variant of ConsumeOneTarget without the consume_one override of the
\* concurrent class
ConsumeOneInline(concurrent) == "consume"

\* consume_one: DefaultSubscriber awaits consume(msg) inline,
\* ConcurrentDefaultSubscriber awaits _put_msg(msg)
ConsumeOneTarget(concurrent) == IF concurrent THEN "put" ELSE "consume"

\* variant of LaunchesLoop without the `if self.calls` test
LaunchesLoopAlways(calls) == TRUE

\* `if self.calls: self.add_task(self._consume())`
LaunchesLoop(calls) == calls

\* start(): `assert self.builder`, then the consumer is built and started,
\* running is set and, with a handler registered, the _consume task is
\* launched; the task runs to its first await, get_msg()
Start ==
    /\ pc = "idle"
    /\ consumer = "none"
    /\ startResult = "none"
    /\ IF ~cfg.setup
       THEN /\ startResult' = "AssertionError"
            /\ UNCHANGED <<consumer, running, pc>>
       ELSE /\ startResult' = "ok"
            /\ consumer' = "started"
            /\ running' = TRUE
            /\ pc' = IF LaunchesLoop(cfg.calls) THEN "fetch" ELSE "idle"
    /\ UNCHANGED <<cfg, connected, stopped, msg, fetched, failures, sleeps, clock,
                   queue, enqueued, inflight, outcome, done, log, closing,
                   closedWith, stops, closes, leaked, extraTasks>>
    /\ UNCHANGED outsideSub

\* variant of FetchMsg that schedules consume_one(msg) without awaiting it
FetchMsgNoAwait ==
    /\ pc = "fetch"
    /\ ~stopped
    /\ Len(fetched) < MsgBound(cfg)
    /\ LET m == Len(fetched) + 1
       IN  /\ fetched' = Append(fetched, m)
           /\ msg' = m
           /\ connected' = TRUE
           /\ pc' = IF ConsumeOneTarget(cfg.concurrent) = "consume"
                    THEN "fetch" ELSE "put"
           /\ inflight' = IF ConsumeOneTarget(cfg.concurrent) = "consume"
                          THEN inflight \cup {[m |-> m, stage |-> "pre", ok |-> TRUE]}
                          ELSE inflight
    /\ UNCHANGED <<cfg, running, consumer, stopped, failures, sleeps, clock, queue,
                   enqueued, outcome, done, log>>
    /\ UNCHANGED lifeVars
    /\ UNCHANGED outsideSub

\* get_msg() returns a message: connected is restored, consume_one(msg) is awaited
FetchMsg ==
    /\ pc = "fetch"
    /\ ~stopped
    /\ Len(fetched) < MsgBound(cfg)
    /\ LET m == Len(fetched) + 1
       IN  /\ fetched' = Append(fetched, m)
           /\ msg' = m
           /\ connected' = TRUE
           /\ pc' = ConsumeOneTarget(cfg.concurrent)
           /\ inflight' = IF ConsumeOneTarget(cfg.concurrent) = "consume"
                          THEN inflight \cup {[m |-> m, stage |-> "pre", ok |-> TRUE]}
                          ELSE inflight
    /\ UNCHANGED <<cfg, running, consumer, stopped, failures, sleeps, clock, queue,
                   enqueued, outcome, done, log>>
    /\ UNCHANGED lifeVars
    /\ UNCHANGED outsideSub

\* variant of FetchEmpty that dispatches the message left in `msg` by the
\* previous iteration
FetchEmptyStale ==
    /\ pc = "fetch"
    /\ ~stopped
    /\ connected' = TRUE
    /\ IF msg = 0
       THEN pc' = "fetch" /\ inflight' = inflight
       ELSE /\ pc' = ConsumeOneTarget(cfg.concurrent)
            /\ inflight' = IF ConsumeOneTarget(cfg.concurrent) = "consume"
                           THEN inflight \cup {[m |-> msg, stage |-> "pre", ok |-> TRUE]}
                           ELSE inflight
    /\ UNCHANGED <<cfg, running, consumer, stopped, msg, fetched, failures, sleeps,
                   clock, queue, enqueued, outcome, done, log>>
    /\ UNCHANGED lifeVars
    /\ UNCHANGED outsideSub

\* get_msg() returns nothing (None, an empty batch): the loop fetches again
FetchEmpty ==
    /\ pc = "fetch"
    /\ ~stopped
    /\ connected' = TRUE
    /\ pc' = "fetch"
    /\ UNCHANGED <<cfg, running, consumer, stopped, msg, fetched, failures, sleeps,
                   clock, queue, enqueued, inflight, outcome, done, log>>
    /\ UNCHANGED lifeVars
    /\ UNCHANGED outsideSub

\* get_msg() raises the transient class: connected is dropped, sleep(5) begins
FetchTransient ==
    /\ pc = "fetch"
    /\ ~stopped
    /\ failures < MaxFailures
    /\ failures' = failures + 1
    /\ connected' = FALSE
    /\ pc' = OnFetchError(cfg.backend, Transient(cfg.backend))
    /\ UNCHANGED <<cfg, running, consumer, stopped, msg, fetched, sleeps, clock,
                   queue, enqueued, inflight, outcome, done, log>>
    /\ UNCHANGED lifeVars
    /\ UNCHANGED outsideSub

\* get_msg() raises because the client reports itself stopped
FetchTerminal ==
    /\ pc = "fetch"
    /\ \E exc \in Terminal(cfg.backend) :
          /\ OnFetchError(cfg.backend, exc) = "sleep" => failures < MaxFailures
          /\ pc' = OnFetchError(cfg.backend, exc)
          /\ connected' = IF OnFetchError(cfg.backend, exc) = "sleep"
                          THEN FALSE ELSE connected
          /\ failures' = IF OnFetchError(cfg.backend, exc) = "sleep"
                         THEN failures + 1 ELSE failures
    /\ stopped' = TRUE
    /\ UNCHANGED <<cfg, running, consumer, msg, fetched, sleeps, clock, queue,
                   enqueued, inflight, outcome, done, log>>
    /\ UNCHANGED lifeVars
    /\ UNCHANGED outsideSub

\* anyio.sleep(5) returns; `while self.running` holds, get_msg() is awaited
Backoff ==
    /\ pc = "sleep"
    /\ sleeps' = sleeps + 1
    /\ clock' = clock + BackoffInterval
    /\ pc' = "fetch"
    /\ UNCHANGED <<cfg, running, consumer, connected, stopped, msg, fetched,
                   failures, queue, enqueued, inflight, outcome, done, log>>
    /\ UNCHANGED lifeVars
    /\ UNCHANGED outsideSub

\* variant of PutMsg whose push never blocks
PutMsgUnbounded ==
    /\ pc = "put"
    /\ queue' = Append(queue, msg)
    /\ enqueued' = Append(enqueued, msg)
    /\ pc' = "fetch"
    /\ UNCHANGED <<cfg, running, consumer, connected, stopped, msg, fetched,
                   failures, sleeps, clock, inflight, outcome, done, log>>
    /\ UNCHANGED lifeVars
    /\ UNCHANGED outsideSub

\* _put_msg(msg): the push completes once the bounded queue has room
PutMsg ==
    /\ pc = "put"
    /\ Len(queue) < cfg.max_workers
    /\ queue' = Append(queue, msg)
    /\ enqueued' = Append(enqueued, msg)
    /\ pc' = "fetch"
    /\ UNCHANGED <<cfg, running, consumer, connected, stopped, msg, fetched,
                   failures, sleeps, clock, inflight, outcome, done, log>>
    /\ UNCHANGED lifeVars
    /\ UNCHANGED outsideSub

\* variant of WorkerPop that starts consume(msg) without a free worker
WorkerPopUnlimited ==
    /\ cfg.concurrent
    /\ running
    /\ queue # <<>>
    /\ inflight' = inflight \cup {[m |-> Head(queue), stage |-> "pre", ok |-> TRUE]}
    /\ queue' = Tail(queue)
    /\ UNCHANGED <<cfg, running, consumer, pc, connected, stopped, msg, fetched,
                   failures, sleeps, clock, enqueued, outcome, done, log>>
    /\ UNCHANGED lifeVars
    /\ UNCHANGED outsideSub

\* a free worker takes the head of the queue and begins consume(msg)
WorkerPop ==
    /\ cfg.concurrent
    /\ running
    /\ queue # <<>>
    /\ Cardinality(inflight) < cfg.max_workers
    /\ inflight' = inflight \cup {[m |-> Head(queue), stage |-> "pre", ok |-> TRUE]}
    /\ queue' = Tail(queue)
    /\ UNCHANGED <<cfg, running, consumer, pc, connected, stopped, msg, fetched,
                   failures, sleeps, clock, enqueued, outcome, done, log>>
    /\ UNCHANGED lifeVars
    /\ UNCHANGED outsideSub

\* consume(msg), pre-handler hook of the ack policy
ConsumePre(e) ==
    /\ e \in inflight
    /\ e.stage = "pre"
    /\ log' = log \o Issue(AckPre(cfg.policy), e.m)
    /\ inflight' = (inflight \ {e}) \cup {[e EXCEPT !.stage = "handler"]}
    /\ UNCHANGED <<cfg, running, consumer, pc, connected, stopped, msg, fetched,
                   failures, sleeps, clock, queue, enqueued, outcome, done>>
    /\ UNCHANGED lifeVars
    /\ UNCHANGED outsideSub

\* consume(msg), the user handler runs and returns (ok) or raises
ConsumeHandler(e) ==
    /\ e \in inflight
    /\ e.stage = "handler"
    /\ \E ok \in BOOLEAN :
          /\ outcome' = [outcome EXCEPT ![e.m] = IF ok THEN "ok" ELSE "fail"]
          /\ inflight' = (inflight \ {e}) \cup {[e EXCEPT !.stage = "post", !.ok = ok]}
    /\ log' = Append(log, [op |-> "handler", m |-> e.m])
    /\ UNCHANGED <<cfg, running, consumer, pc, connected, stopped, msg, fetched,
                   failures, sleeps, clock, queue, enqueued, done>>
    /\ UNCHANGED lifeVars
    /\ UNCHANGED outsideSub

\* variant of ConsumePost in which the failure of a message is raised out
\* of consume(msg) into the task that awaits it
ConsumePostPropagates(e) ==
    /\ e \in inflight
    /\ e.stage = "post"
    /\ log' = log \o Issue(AckPost(cfg.policy, e.ok), e.m)
    /\ inflight' = inflight \ {e}
    /\ done' = done \cup {e.m}
    /\ pc' = IF ~e.ok THEN "raised" ELSE IF pc = "consume" THEN "fetch" ELSE pc
    /\ UNCHANGED <<cfg, running, consumer, connected, stopped, msg, fetched,
                   failures, sleeps, clock, queue, enqueued, outcome>>
    /\ UNCHANGED lifeVars
    /\ UNCHANGED outsideSub

\* consume(msg), post-handler hook; consume returns.  In a sequential
\* subscriber this resumes _consume, which awaits the next get_msg()
ConsumePost(e) ==
    /\ e \in inflight
    /\ e.stage = "post"
    /\ log' = log \o Issue(AckPost(cfg.policy, e.ok), e.m)
    /\ inflight' = inflight \ {e}
    /\ done' = done \cup {e.m}
    /\ pc' = IF pc = "consume" THEN "fetch" ELSE pc
    /\ UNCHANGED <<cfg, running, consumer, connected, stopped, msg, fetched,
                   failures, sleeps, clock, queue, enqueued, outcome>>
    /\ UNCHANGED lifeVars
    /\ UNCHANGED outsideSub

\* super().close() has returned: the tasks are cancelled and the fan-out
\* executions that were under way have run to completion
SuperCloseReturned == cfg.concurrent => inflight = {}

\* close() begins: `await super().close()` clears running and cancels the
\* _consume task at its await, with the consume(msg) it awaits inline;
\* fan-out executions under way are left to finish
CloseBegin ==
    /\ consumer = "started"
    /\ closing = "idle"
    /\ closing' = "draining"
    /\ closedWith' = {e.m : e \in inflight}
    /\ running' = FALSE
    /\ pc' = IF pc \in {"fetch", "sleep", "consume", "put"} THEN "cancelled" ELSE pc
    /\ inflight' = IF cfg.concurrent THEN inflight ELSE {}
    /\ closes' = closes + 1
    /\ extraTasks' = 0
    /\ UNCHANGED <<cfg, consumer, connected, stopped, msg, fetched, failures, sleeps,
                   clock, queue, enqueued, outcome, done, log, startResult, stops,
                   leaked>>
    /\ UNCHANGED outsideSub

\* variant of CloseFinish that stops the consumer without awaiting
\* super().close()
CloseFinishUnawaited ==
    /\ closing = "draining"
    /\ consumer' = "none"
    /\ stops' = stops + 1
    /\ closing' = "done"
    /\ UNCHANGED <<cfg, running, pc, connected, stopped, msg, fetched, failures,
                   sleeps, clock, queue, enqueued, inflight, outcome, done, log,
                   startResult, closedWith, closes, leaked, extraTasks>>
    /\ UNCHANGED outsideSub

\* variant of CloseFinish without `self.consumer = None`
CloseFinishKeepsConsumer ==
    /\ closing = "draining"
    /\ SuperCloseReturned
    /\ stops' = stops + 1
    /\ closing' = "done"
    /\ UNCHANGED <<cfg, running, consumer, pc, connected, stopped, msg, fetched,
                   failures, sleeps, clock, queue, enqueued, inflight, outcome, done,
                   log, startResult, closedWith, closes, leaked, extraTasks>>
    /\ UNCHANGED outsideSub

\* close() ends: after super().close() has returned, `await
\* self.consumer.stop()` and `self.consumer = None`
CloseFinish ==
    /\ closing = "draining"
    /\ SuperCloseReturned
    /\ consumer' = "none"
    /\ stops' = stops + 1
    /\ closing' = "done"
    /\ UNCHANGED <<cfg, running, pc, connected, stopped, msg, fetched, failures,
                   sleeps, clock, queue, enqueued, inflight, outcome, done, log,
                   startResult, closedWith, closes, leaked, extraTasks>>
    /\ UNCHANGED outsideSub

\* no factory call is examined while the subscriber runs
FacIdle ==
    /\ call = [backend |-> "confluent", ack_policy |-> EMPTY, auto_commit |-> EMPTY,
               no_ack |-> EMPTY, max_workers |-> 1, batch |-> FALSE]
    /\ result = Pending

Init ==
    /\ cfg \in Configs
    /\ SubFresh
    /\ FacIdle
    /\ PullIdle
    /\ NamesIdle
    /\ BatIdle
    /\ PubIdle
    /\ RestIdle

Next ==
    \/ Start
    \/ FetchMsg
    \/ FetchEmpty
    \/ FetchTransient
    \/ FetchTerminal
    \/ Backoff
    \/ PutMsg
    \/ WorkerPop
    \/ \E e \in inflight : ConsumePre(e)
    \/ \E e \in inflight : ConsumeHandler(e)
    \/ \E e \in inflight : ConsumePost(e)
    \/ CloseBegin
    \/ CloseFinish

Spec == Init /\ [][Next]_vars

(***************************************************************************)
(* Repeated lifecycle calls on one subscriber: close() on a subscriber     *)
(* that holds no consumer, start() on a subscriber already started.        *)
(***************************************************************************)
MaxCloseCalls == 2

MaxStartsAgain == 1

\* the subscribers the repeated calls are followed on
LifeConfigs == {c \in Configs : c.max_workers = 1 /\ c.setup}

InitLife ==
    /\ cfg \in LifeConfigs
    /\ SubFresh
    /\ FacIdle
    /\ PullIdle
    /\ NamesIdle
    /\ BatIdle
    /\ PubIdle
    /\ RestIdle

\* close() while self.consumer is None (never started, or closed before):
\* super().close() finds no live task, and `if self.consumer is not None`
\* skips the stop
CloseNoConsumer ==
    /\ consumer = "none"
    /\ closing # "draining"
    /\ closes < MaxCloseCalls
    /\ closes' = closes + 1
    /\ running' = FALSE
    /\ extraTasks' = 0
    /\ UNCHANGED <<cfg, consumer, pc, connected, stopped, msg, fetched, failures,
                   sleeps, clock, queue, enqueued, inflight, outcome, done, log,
                   startResult, closing, closedWith, stops, leaked>>
    /\ UNCHANGED outsideSub

\* start() of the Kafka and Confluent subscribers on a subscriber that is
\* started: no test precedes `self.consumer = consumer = self.builder(...)`,
\* so a second consumer is built and started in place of the first, which
\* is not stopped, and with a handler registered a second _consume task is
\* added
StartAgain ==
    /\ consumer = "started"
    /\ closing = "idle"
    /\ leaked < MaxStartsAgain
    /\ leaked' = leaked + 1
    /\ extraTasks' = extraTasks + (IF LaunchesLoop(cfg.calls) THEN 1 ELSE 0)
    /\ running' = TRUE
    /\ UNCHANGED <<cfg, consumer, pc, connected, stopped, msg, fetched, failures,
                   sleeps, clock, queue, enqueued, inflight, outcome, done, log,
                   startResult, closing, closedWith, stops, closes>>
    /\ UNCHANGED outsideSub

NextLife ==
    \/ Next
    \/ CloseNoConsumer
    \/ StartAgain

SpecLife == InitLife /\ [][NextLife]_vars

(***************************************************************************)
(* Failures inside one consumption cycle: besides the handler raising      *)
(* (ConsumeHandler), the parser or decoder raises before the handler runs. *)
(***************************************************************************)
\* consume(msg): parsing or decoding the message raises; the handler is
\* not called and the cycle goes on to the post-handler hook as a failure
ConsumeParseFail(e) ==
    /\ e \in inflight
    /\ e.stage = "handler"
    /\ outcome' = [outcome EXCEPT ![e.m] = "fail"]
    /\ inflight' = (inflight \ {e}) \cup {[e EXCEPT !.stage = "post", !.ok = FALSE]}
    /\ UNCHANGED <<cfg, running, consumer, pc, connected, stopped, msg, fetched,
                   failures, sleeps, clock, queue, enqueued, done, log>>
    /\ UNCHANGED lifeVars
    /\ UNCHANGED outsideSub

NextFail ==
    \/ Next
    \/ \E e \in inflight : ConsumeParseFail(e)

SpecFail == InitLife /\ [][NextFail]_vars

\* the client handles that are open
OpenHandles == (IF consumer = "started" THEN 1 ELSE 0) + leaked

\* the _consume tasks that are alive
LoopTasks ==
    (IF pc \in {"fetch", "sleep", "consume", "put"} THEN 1 ELSE 0) + extraTasks

(***************************************************************************)
(* Batch mode: BatchSubscriber.get_msg of kafka/subscriber/usecase.py and  *)
(* confluent/subscriber/usecase.py under the _consume loop they inherit.   *)
(* A record is named by its number in arrival order; the number of an      *)
(* envelope is its position in `fetched`.                                  *)
(***************************************************************************)
\* largest `max_records` worth of records one getmany() returns
MaxRecords == 2
\* partitions one getmany() result spans
MaxPartitions == 2
\* non-empty fetches in one behaviour
MaxBatchFetches == 2

\* a batch subscriber is sequential, has a handler and has been set up
BatchConfigs ==
    {[c EXCEPT !.batch = TRUE] : c \in {x \in Configs : ~x.concurrent /\ x.calls /\ x.setup}}

RECURSIVE SortedSeq(_)
\* the records of one partition arrive in offset order
SortedSeq(S) ==
    IF S = {} THEN <<>>
    ELSE LET lo == CHOOSE x \in S : \A y \in S : x <= y
         IN  <<lo>> \o SortedSeq(S \ {lo})

\* what getmany() can return for the n records after record lo.  aiokafka
\* returns a dict from partition to the list of its records, here the
\* sequence of its values in dict order; the Confluent client returns the
\* records as one list
RawResults(backend, lo, n) ==
    LET S == (lo + 1)..(lo + n)
        Lists == {SortedSeq(T) : T \in (SUBSET S) \ {{}}}
        Range(l) == {l[i] : i \in DOMAIN l}
    IN  IF backend = "confluent" THEN {SortedSeq(S)}
        ELSE {r \in UNION {[1..k -> Lists] : k \in 1..MaxPartitions} :
                /\ UNION {Range(r[p]) : p \in DOMAIN r} = S
                /\ \A p, q \in DOMAIN r : p # q => Range(r[p]) \cap Range(r[q]) = {}}

RECURSIVE Chain(_)
\* `chain(*messages.values())`
Chain(r) == IF r = <<>> THEN <<>> ELSE Head(r) \o Chain(Tail(r))

\* variant of GetMsg that takes the records of the first partition only
GetMsgFirstPartition(backend, r) ==
    IF backend = "kafka" THEN (IF r = <<>> THEN <<>> ELSE Head(r)) ELSE r

\* get_msg of the batch subscribers.  Kafka: `if not messages: ...; return ()`,
\* else `tuple(chain(*messages.values()))`.  Confluent: `getmany(...) or None`.
\* Both `()` and None are the empty sequence here: _consume tests `if msg`
GetMsg(backend, r) == IF backend = "kafka" THEN Chain(r) ELSE r

\* variant of KafkaMsgClass in which the Default subscriber always takes
\* the ackable class
KafkaMsgClassAckable(variant, ack_policy) ==
    IF variant = "Batch" /\ ack_policy = "ACK_FIRST" THEN "KafkaMessage"
    ELSE "KafkaAckableMessage"

\* the msg_class handed to the parser.  DefaultSubscriber.__init__ compares
\* the policy with `ack_policy.ACK_FIRST`, the member reached through the
\* policy itself; BatchSubscriber.__init__ compares it with
\* `AckPolicy.ACK_FIRST`.  Both name the same enum member
KafkaMsgClass(variant, ack_policy) ==
    IF variant = "Default"
    THEN (IF ack_policy = "ACK_FIRST" THEN "KafkaMessage" ELSE "KafkaAckableMessage")
    ELSE (IF ack_policy = "ACK_FIRST" THEN "KafkaMessage" ELSE "KafkaAckableMessage")

InitBatch ==
    /\ cfg \in BatchConfigs
    /\ SubFresh
    /\ FacIdle
    /\ PullIdle
    /\ NamesIdle
    /\ BatIdle
    /\ PubIdle
    /\ RestIdle

\* one iteration of _consume in which getmany() returned records: get_msg
\* builds the tuple, `if msg:` holds and consume_one(msg) is awaited once
\* with the whole tuple
BatchFetch ==
    /\ pc = "fetch"
    /\ ~stopped
    /\ bat.fetches < MaxBatchFetches
    /\ \E n \in 1..MaxRecords :
       \E r \in RawResults(cfg.backend, bat.records, n) :
          LET m == Len(fetched) + 1
              batch == GetMsg(cfg.backend, r)
          IN  /\ bat' = [result |-> r, env |-> batch,
                         records |-> bat.records + n, fetches |-> bat.fetches + 1]
              /\ fetched' = IF batch # <<>> THEN Append(fetched, m) ELSE fetched
              /\ msg' = IF batch # <<>> THEN m ELSE msg
              /\ pc' = IF batch # <<>> THEN "consume" ELSE "fetch"
              /\ inflight' = IF batch # <<>>
                             THEN inflight \cup {[m |-> m, stage |-> "pre", ok |-> TRUE]}
                             ELSE inflight
    /\ connected' = TRUE
    /\ UNCHANGED <<cfg, running, consumer, stopped, failures, sleeps, clock, queue,
                   enqueued, outcome, done, log>>
    /\ UNCHANGED lifeVars
    /\ UNCHANGED <<facVars, pullVars, nameVars, pubVars, part, natsVars, bindVars>>

\* one iteration of _consume in which getmany() returned nothing: Kafka
\* sleeps batch_timeout_ms / 1000 and returns (), Confluent returns None;
\* `if msg:` fails and the loop fetches again
BatchFetchEmpty ==
    /\ pc = "fetch"
    /\ ~stopped
    /\ GetMsg(cfg.backend, <<>>) = <<>>
    /\ connected' = TRUE
    /\ pc' = "fetch"
    /\ UNCHANGED <<cfg, running, consumer, stopped, msg, fetched, failures, sleeps,
                   clock, queue, enqueued, inflight, outcome, done, log>>
    /\ UNCHANGED lifeVars
    /\ UNCHANGED outsideSub

NextBatch ==
    \/ Start
    \/ BatchFetch
    \/ BatchFetchEmpty
    \/ \E e \in inflight : ConsumePre(e)
    \/ \E e \in inflight : ConsumeHandler(e)
    \/ \E e \in inflight : ConsumePost(e)
    \/ CloseBegin
    \/ CloseFinish

SpecBatch == InitBatch /\ [][NextBatch]_vars

(***************************************************************************)
(* redis/subscriber/usecases/list_subscriber.py: ListSubscriber,           *)
(* BatchListSubscriber and ConcurrentListSubscriber under the loop that    *)
(* awaits _get_msgs(client) again and again.  A popped element is named by *)
(* its number in arrival order.                                            *)
(***************************************************************************)
RedisVariants == {"single", "batch", "concurrent"}

\* variant of RedisListPolicy that keeps the policy the configuration came with
RedisListPolicyKept(variant, supplied) == supplied

\* `base_configs.ack_policy = AckPolicy.DO_NOTHING` in ListSubscriber.__init__
\* and in BatchListSubscriber.__init__; ConcurrentListSubscriber goes
\* through ListSubscriber.__init__
RedisListPolicy(variant, supplied) == "DO_NOTHING"

\* the list subscribers after construction, `supplied` being the policy the
\* configuration carried into __init__
RedisConfigs ==
    {[backend |-> "redis", policy |-> RedisListPolicy(v, sp),
      concurrent |-> (v = "concurrent"), max_workers |-> w, calls |-> calls,
      setup |-> setup, batch |-> (v = "batch"), supplied |-> sp] :
        v \in RedisVariants, sp \in AckPolicy, w \in 1..MaxWorkers,
        calls \in BOOLEAN, setup \in BOOLEAN}
    \ {c \in [backend : {"redis"}, policy : AckPolicy, concurrent : {FALSE},
              max_workers : 2..MaxWorkers, calls : BOOLEAN, setup : BOOLEAN,
              batch : BOOLEAN, supplied : AckPolicy] : TRUE}

\* variant of RedisDispatches without the test
RedisDispatchesAlways(raw) == TRUE

\* `if raw_msg:` and `if raw_msgs:` on what blpop and lpop returned; nothing
\* popped is the empty sequence
RedisDispatches(raw) == raw # <<>>

\* start(): `if self.tasks: return`, `assert self._client`, then the loop
\* task is launched and runs to its first pop
RedisStart ==
    /\ cfg.backend = "redis"
    /\ closing = "idle"
    /\ IF pc # "idle"
       THEN UNCHANGED <<startResult, consumer, running, pc>>
       ELSE IF ~cfg.setup
       THEN /\ startResult' = "AssertionError"
            /\ UNCHANGED <<consumer, running, pc>>
       ELSE /\ startResult' = "ok"
            /\ consumer' = "started"
            /\ running' = TRUE
            /\ pc' = IF LaunchesLoop(cfg.calls) THEN "fetch" ELSE "idle"
    /\ UNCHANGED <<cfg, connected, stopped, msg, fetched, failures, sleeps, clock,
                   queue, enqueued, inflight, outcome, done, log, closing,
                   closedWith, stops, closes, leaked, extraTasks>>
    /\ UNCHANGED outsideSub

\* one _get_msgs(client): blpop returns one element or nothing, lpop with
\* count returns up to max_records elements or nothing; what was popped is
\* wrapped into one message and handed to consume_one, nothing popped is
\* passed over (the batch class sleeps polling_interval first)
RedisGetMsgs ==
    /\ cfg.backend = "redis"
    /\ pc = "fetch"
    /\ running
    /\ \E n \in 0..(IF cfg.batch THEN MaxRecords ELSE 1) :
          LET raw == SortedSeq((bat.records + 1)..(bat.records + n))
              m == Len(fetched) + 1
          IN  /\ n > 0 => Len(fetched) < MsgBound(cfg)
              /\ IF RedisDispatches(raw)
                 THEN /\ bat' = [result |-> raw, env |-> raw,
                                 records |-> bat.records + n,
                                 fetches |-> bat.fetches + 1]
                      /\ fetched' = Append(fetched, m)
                      /\ msg' = m
                      /\ pc' = ConsumeOneTarget(cfg.concurrent)
                      /\ inflight' = IF ConsumeOneTarget(cfg.concurrent) = "consume"
                                     THEN inflight \cup {[m |-> m, stage |-> "pre",
                                                          ok |-> TRUE]}
                                     ELSE inflight
                 ELSE UNCHANGED <<bat, fetched, msg, pc, inflight>>
    /\ UNCHANGED <<cfg, running, consumer, connected, stopped, failures, sleeps, clock,
                   queue, enqueued, outcome, done, log>>
    /\ UNCHANGED lifeVars
    /\ UNCHANGED <<facVars, pullVars, nameVars, pubVars, part, natsVars, bindVars>>

InitRedis ==
    /\ cfg \in RedisConfigs
    /\ SubFresh
    /\ FacIdle
    /\ PullIdle
    /\ NamesIdle
    /\ BatIdle
    /\ PubIdle
    /\ RestIdle

NextRedis ==
    \/ RedisStart
    \/ RedisGetMsgs
    \/ PutMsg
    \/ WorkerPop
    \/ \E e \in inflight : ConsumePre(e)
    \/ \E e \in inflight : ConsumeHandler(e)
    \/ \E e \in inflight : ConsumePost(e)

SpecRedis == InitRedis /\ [][NextRedis]_vars

(***************************************************************************)
(* Every loop of the model side by side: the subscriber is of one class    *)
(* and runs the loop of that class.                                        *)
(***************************************************************************)
LoopConfigs == Configs \cup BatchConfigs \cup RedisConfigs

InitLoops ==
    /\ cfg \in LoopConfigs
    /\ SubFresh
    /\ FacIdle
    /\ PullIdle
    /\ NamesIdle
    /\ BatIdle
    /\ PubIdle
    /\ RestIdle

NextLoops ==
    \/ cfg.backend \in Backends /\ ~cfg.batch /\ Next
    \/ cfg.backend \in Backends /\ cfg.batch /\ NextBatch
    \/ cfg.backend = "redis" /\ NextRedis

SpecLoops == InitLoops /\ [][NextLoops]_vars

(***************************************************************************)
(* Publishing: create_publisher of kafka/publisher/factory.py, and publish *)
(* and request of confluent/publisher/usecase.py.  A headers dict is the   *)
(* set of its <<name, value>> pairs; time is counted in tenths of a unit.  *)
(***************************************************************************)
\* publish and request calls on one publisher in one behaviour
MaxPubCalls == 2
\* the timeout a caller of request passes, in tenths
CallerTimeout == 2
\* `timeout: float = 0.5`, in tenths
RequestDefaultTimeout == 5

HeaderNames == {"a", "b"}

\* the `headers` argument of create_publisher: None, {"a": "d"} or
\* {"a": "d", "b": "d"}
DefaultHeaderArgs ==
    {NoneHeaders, [none |-> FALSE, d |-> {<<"a", "d">>}],
     [none |-> FALSE, d |-> {<<"a", "d">>, <<"b", "d">>}]}

\* the `headers` argument of publish and request: None, {}, {"a": "c"} or
\* {"b": "c"}
CallerHeaderArgs ==
    {NoneHeaders, [none |-> FALSE, d |-> {}], [none |-> FALSE, d |-> {<<"a", "c">>}],
     [none |-> FALSE, d |-> {<<"b", "c">>}]}

\* the `key` argument of create_publisher: None, b"" or a key
KeyArgs == {"None", "", "k"}

\* the `key` argument of publish and request: None or a key
CallKeyArgs == {"None", "k2"}

\* the `correlation_id` argument: None, "" or an id
IdArgs == {NoneId, [kind |-> "empty", n |-> 0], [kind |-> "caller", n |-> 1]}

\* truth value of a key and of a correlation id
Truthy(x) == x \notin {"None", ""}

TruthyId(c) == c.kind \in {"caller", "uuid"}

\* `headers or {}`
OrEmpty(h) == IF h.none THEN {} ELSE h.d

\* `a or b` on keys
Or(a, b) == IF Truthy(a) THEN a ELSE b

Names(d) == {kv[1] : kv \in d}

\* variant of Merge in which the publisher's value wins on a conflict
MergeDefaultsWin(defaults, h) == defaults \cup {kv \in h : kv[1] \notin Names(defaults)}

\* `self.headers | (headers or {})`: a new dict, the right operand wins
Merge(defaults, h) == h \cup {kv \in defaults : kv[1] \notin Names(h)}

\* gen_cor_id(): the n-th id generated
GenCorId(n) == [kind |-> "uuid", n |-> n]

\* variant of CorrelationId that passes the argument on as given
CorrelationIdAsGiven(c, n) == c

\* `correlation_id or gen_cor_id()`
CorrelationId(c, n) == IF TruthyId(c) THEN c ELSE GenCorId(n)

\* variant of BatchKeyRejected without the `if key` test
BatchKeyAccepted(batch, key) == FALSE

\* `if batch: if key: raise SetupError`
BatchKeyRejected(batch, key) == batch /\ Truthy(key)

\* variant of RequestDeadline in which the wait ends at once
RequestDeadlineNow(timeout) == 0

\* the wait of a request ends `timeout` after it began
RequestDeadline(timeout) == timeout

InitPublish ==
    /\ SubIdle
    /\ FacIdle
    /\ PullIdle
    /\ NamesIdle
    /\ BatIdle
    /\ PubIdle
    /\ RestIdle

outsidePub == <<facVars, subVars, lifeVars, pullVars, nameVars, bat, part, natsVars,
                bindVars>>

\* create_publisher(batch=, key=, headers=, ...), then LogicPublisher.__init__
\* with `self.headers = base_configs.headers or {}`
CreatePublisher ==
    /\ publisher.kind = "none"
    /\ \E batch \in BOOLEAN, key \in KeyArgs, h \in DefaultHeaderArgs :
          LET arg == [batch |-> batch, key |-> key, headers |-> h]
          IN  publisher' =
                IF BatchKeyRejected(batch, key)
                THEN [kind |-> "SetupError", key |-> "None", headers |-> {}, arg |-> arg]
                ELSE [kind |-> IF batch THEN "batch" ELSE "default",
                      key |-> IF batch THEN "None" ELSE key,
                      headers |-> OrEmpty(h), arg |-> arg]
    /\ UNCHANGED <<cmd, cids, gen, req>>
    /\ UNCHANGED outsidePub

\* what building one command does to the publishing state; self.headers is
\* read, never assigned
Built(type, key, h, c, timeout) ==
    LET id == CorrelationId(c, gen + 1)
    IN  /\ cmd' = [id |-> Len(cids) + 1, type |-> type, key |-> key,
                   headers |-> Merge(publisher.headers, OrEmpty(h)),
                   correlation_id |-> id, timeout |-> timeout,
                   arg |-> [key |-> key, headers |-> h, correlation_id |-> c]]
        /\ cids' = Append(cids, id)
        /\ gen' = IF TruthyId(c) THEN gen ELSE gen + 1
        /\ UNCHANGED publisher

\* DefaultPublisher.publish: the command is built and handed to
\* _basic_publish
Publish ==
    /\ publisher.kind = "default"
    /\ req.status # "waiting"
    /\ Len(cids) < MaxPubCalls
    /\ \E key \in CallKeyArgs, h \in CallerHeaderArgs, c \in IdArgs :
          Built("publish", Or(key, publisher.key), h, c, 0)
    /\ UNCHANGED req
    /\ UNCHANGED outsidePub

\* BatchPublisher.publish: `key=None`
PublishBatch ==
    /\ publisher.kind = "batch"
    /\ req.status # "waiting"
    /\ Len(cids) < MaxPubCalls
    /\ \E h \in CallerHeaderArgs, c \in IdArgs : Built("batch", "None", h, c, 0)
    /\ UNCHANGED req
    /\ UNCHANGED outsidePub

\* request: DefaultPublisher.request passes `key or self.key` to
\* LogicPublisher.request, which builds the command and awaits
\* _basic_request(cmd); the command is published and the wait begins
Request ==
    /\ publisher.kind \in {"default", "batch"}
    /\ req.status # "waiting"
    /\ Len(cids) < MaxPubCalls
    /\ \E key \in CallKeyArgs, h \in CallerHeaderArgs, c \in IdArgs,
          timeout \in {RequestDefaultTimeout, CallerTimeout} :
          Built("request", Or(key, publisher.key), h, c, timeout)
    /\ req' = [status |-> "waiting", elapsed |-> 0, response |-> NoneId,
               published |-> TRUE]
    /\ UNCHANGED outsidePub

\* a tenth of a time unit passes while the request waits
RequestTick ==
    /\ req.status = "waiting"
    /\ req.elapsed < RequestDeadline(cmd.timeout)
    /\ req' = [req EXCEPT !.elapsed = @ + 1]
    /\ UNCHANGED <<publisher, cmd, cids, gen>>
    /\ UNCHANGED outsidePub

\* a response reaches the waiting request before its deadline: one with the
\* correlation id of the command ends the wait, any other is passed over
RequestReply ==
    /\ req.status = "waiting"
    /\ req.elapsed < RequestDeadline(cmd.timeout)
    /\ \E matches \in BOOLEAN :
          IF matches
          THEN req' = [req EXCEPT !.status = "returned",
                                  !.response = cmd.correlation_id]
          ELSE req' = req
    /\ UNCHANGED <<publisher, cmd, cids, gen>>
    /\ UNCHANGED outsidePub

\* the deadline passes with no matching response: the wait is cancelled and
\* request raises the timeout error
RequestTimeout ==
    /\ req.status = "waiting"
    /\ req.elapsed >= RequestDeadline(cmd.timeout)
    /\ req' = [req EXCEPT !.status = "Timeout"]
    /\ UNCHANGED <<publisher, cmd, cids, gen>>
    /\ UNCHANGED outsidePub

NextPublish ==
    \/ CreatePublisher
    \/ Publish
    \/ PublishBatch
    \/ Request
    \/ RequestTick
    \/ RequestReply
    \/ RequestTimeout

SpecPublish == InitPublish /\ [][NextPublish]_vars

\* the clock advances and the deadline of a wait fires
SpecPublishFair == SpecPublish /\ WF_vars(RequestTick) /\ WF_vars(RequestTimeout)

(***************************************************************************)
(* The partition of a command: publish, request and _publish of            *)
(* confluent/publisher/usecase.py.  None is -1.                            *)
(***************************************************************************)
\* largest partition number
MaxPartitionId == 3

\* `partition: Optional[int]`
PartitionArgs == {-1} \cup 0..MaxPartitionId

\* truth value of an Optional[int]: None and 0 are false
TruthyInt(x) == x \notin {-1, 0}

\* `partition or self.partition`
PartitionOr(arg, default) == IF TruthyInt(arg) THEN arg ELSE default

\* the partition the command of one call carries: publish and
\* LogicPublisher.request pass `partition=partition or self.partition`,
\* _publish assigns `cmd.partition = cmd.partition or self.partition`
CommandPartition(op, arg, default) == PartitionOr(arg, default)

\* a publisher with default partition `default`, and a call about to be
\* made with partition `arg`
InitPartition ==
    /\ SubIdle
    /\ FacIdle
    /\ PullIdle
    /\ NamesIdle
    /\ BatIdle
    /\ PubIdle
    /\ NatsIdle
    /\ BindIdle
    /\ part \in [op : {"publish", "request", "_publish"}, default : PartitionArgs,
                 arg : PartitionArgs, status : {"called"}, partition : {-1}]

\* the call builds its command
BuildCommand ==
    /\ part.status = "called"
    /\ part' = [part EXCEPT !.status = "built",
                            !.partition = CommandPartition(part.op, part.arg, part.default)]
    /\ UNCHANGED <<facVars, subVars, lifeVars, pullVars, nameVars, bat, pubVars, natsVars,
                   bindVars>>

NextPartition == BuildCommand

SpecPartition == InitPartition /\ [][NextPartition]_vars

(***************************************************************************)
(* nats/subscriber/usecases/core_subscriber.py: CoreSubscriber and         *)
(* ConcurrentCoreSubscriber.  A subscription is named by its position in   *)
(* the list of subscriptions the client has created; 0 is None.  Caller 0  *)
(* is the lifecycle, which calls _create_subscription; the others call     *)
(* get_one and iterate.  A coroutine runs from one await to the next       *)
(* without interruption.                                                   *)
(***************************************************************************)
\* tasks that call get_one or iterate
MaxNatsCallers == 2
\* calls one caller makes
MaxNatsCalls == 2
\* messages the server delivers to the push subscriptions
MaxPushes == 2

NatsCallers == 1..MaxNatsCallers

\* `is_ack_disabled=base_configs.ack_policy is not AckPolicy.DO_NOTHING`
IsAckDisabled(policy) == policy # "DO_NOTHING"

\* variant of HasSubscription in which the test never holds
HasSubscriptionNever(sub) == FALSE

\* `if self.subscription:`
HasSubscription(sub) == sub # 0

\* `self._fetch_sub is None`
NoFetchSub(sub) == sub = 0

NatsCallerIdle == [pc |-> "idle", op |-> "none", sub |-> 0, n |-> 0]

InitNats ==
    /\ SubIdle
    /\ FacIdle
    /\ PullIdle
    /\ NamesIdle
    /\ BatIdle
    /\ PubIdle
    /\ PartIdle
    /\ BindIdle
    /\ \E policy \in AckPolicy, concurrent \in BOOLEAN, calls \in BOOLEAN :
          nats = [policy |-> policy, concurrent |-> concurrent, calls |-> calls,
                  is_ack_disabled |-> IsAckDisabled(policy), fetch_sub |-> 0,
                  subscription |-> 0, workers |-> FALSE]
    /\ ncall = [c \in 0..MaxNatsCallers |-> NatsCallerIdle]
    /\ nlog = NoNatsLog

outsideNats == <<facVars, subVars, lifeVars, pullVars, nameVars, bat, pubVars, part,
                 bindVars>>

\* get_one or __aiter__ up to its first await: the assert, then either
\* `await client.subscribe(...)` is entered, which creates the subscription
\* and suspends, or the stored subscription is taken and the read is awaited
NatsPullCall(c) ==
    /\ ncall[c].pc = "idle"
    /\ ncall[c].n < MaxNatsCalls
    /\ \E op \in {"get_one", "iter"} :
          IF nats.calls
          THEN /\ ncall' = [ncall EXCEPT ![c] = [pc |-> "AssertionError", op |-> op,
                                                 sub |-> 0, n |-> @.n + 1]]
               /\ UNCHANGED nlog
          ELSE IF NoFetchSub(nats.fetch_sub)
          THEN /\ nlog' = [nlog EXCEPT !.subs = Append(@, "pull")]
               /\ ncall' = [ncall EXCEPT ![c] = [pc |-> "subscribing", op |-> op,
                                                 sub |-> Len(nlog.subs) + 1,
                                                 n |-> @.n + 1]]
          ELSE /\ ncall' = [ncall EXCEPT ![c] = [pc |-> "reading", op |-> op,
                                                 sub |-> nats.fetch_sub, n |-> @.n + 1]]
               /\ UNCHANGED nlog
    /\ UNCHANGED nats
    /\ UNCHANGED outsideNats

\* `fetch_sub = self._fetch_sub = await ...subscribe(...)` completes: the
\* field and the local are assigned and the read is awaited
NatsPullSubscribed(c) ==
    /\ ncall[c].pc = "subscribing"
    /\ c \in NatsCallers
    /\ nats' = [nats EXCEPT !.fetch_sub = ncall[c].sub]
    /\ ncall' = [ncall EXCEPT ![c].pc = "reading"]
    /\ UNCHANGED nlog
    /\ UNCHANGED outsideNats

\* `fetch_sub.next_msg(timeout=timeout)` or one step of
\* `async for raw_message in fetch_sub.messages` returns: a message or a
\* timeout, read from the subscription the local names
NatsPullRead(c) ==
    /\ ncall[c].pc = "reading"
    /\ nlog' = [nlog EXCEPT !.reads = @ \cup {[caller |-> c, sub |-> ncall[c].sub]}]
    /\ ncall' = [ncall EXCEPT ![c].pc = "idle"]
    /\ UNCHANGED nats
    /\ UNCHANGED outsideNats

\* _create_subscription up to its await: `if self.subscription: return`,
\* in the concurrent class start_consume_task(), then
\* `await client.subscribe(..., cb=...)` creates the subscription and suspends
NatsCreateCall ==
    /\ ncall[0].pc = "idle"
    /\ ncall[0].n < MaxNatsCalls
    /\ IF HasSubscription(nats.subscription)
       THEN /\ ncall' = [ncall EXCEPT ![0].n = @ + 1]
            /\ UNCHANGED <<nats, nlog>>
       ELSE /\ nats' = [nats EXCEPT !.workers = @ \/ nats.concurrent]
            /\ nlog' = [nlog EXCEPT !.subs = Append(@, "push")]
            /\ ncall' = [ncall EXCEPT ![0] = [pc |-> "subscribing", op |-> "create",
                                              sub |-> Len(nlog.subs) + 1, n |-> @.n + 1]]
    /\ UNCHANGED outsideNats

\* `self.subscription = await ...subscribe(...)` completes
NatsCreateDone ==
    /\ ncall[0].pc = "subscribing"
    /\ nats' = [nats EXCEPT !.subscription = ncall[0].sub]
    /\ ncall' = [ncall EXCEPT ![0].pc = "idle"]
    /\ UNCHANGED nlog
    /\ UNCHANGED outsideNats

\* the server delivers a message to a push subscription and the client
\* calls its callback: consume, or in the concurrent class _put_msg, which
\* pushes into the queue the workers read
NatsPush ==
    /\ \E i \in DOMAIN nlog.subs : nlog.subs[i] = "push"
    /\ nlog.pushed < MaxPushes
    /\ nlog' = [nlog EXCEPT !.pushed = @ + 1,
                            !.unserved = IF nats.concurrent /\ ~nats.workers
                                         THEN @ + 1 ELSE @]
    /\ UNCHANGED <<nats, ncall>>
    /\ UNCHANGED outsideNats

\* pull access: tasks calling get_one and iterating side by side
NextNatsPull ==
    \/ \E c \in NatsCallers : NatsPullCall(c)
    \/ \E c \in NatsCallers : NatsPullSubscribed(c)
    \/ \E c \in NatsCallers : NatsPullRead(c)

SpecNatsPull == InitNats /\ [][NextNatsPull]_vars

\* push access: the lifecycle calling _create_subscription again and again
NextNatsPush ==
    \/ NatsCreateCall
    \/ NatsCreateDone
    \/ NatsPush

SpecNatsPush == InitNats /\ [][NextNatsPush]_vars

(***************************************************************************)
(* Pull access: get_one and __aiter__ of kafka/subscriber/usecase.py,      *)
(* confluent/subscriber/usecase.py, nats/.../core_subscriber.py and        *)
(* redis/.../list_subscriber.py.  `consumer` stands for the client handle  *)
(* start() acquires (consumer, _client, the connection).                   *)
(***************************************************************************)
MaxSource == 2

MaxTimeoutSteps == 2

MaxPullCalls == 2

\* how many times a reply of the Redis server may outlast the timeout
MaxSlowPolls == 1

\* `sleep_interval = timeout / 10`
PollsPerTimeout == 10

\* `timeout_ms=timeout * 1000`
MsPerUnit == 1000

PullBackends == {"kafka", "confluent", "nats", "redis"}

\* the subscribers under src/ that define __aiter__
IterBackends == {"nats", "redis"}

\* the subscribers whose get_one asserts the client handle first
AssertsStarted == {"kafka", "confluent", "redis"}

PullConfigs ==
    [backend : PullBackends, policy : {"DO_NOTHING"}, concurrent : {FALSE},
     max_workers : {1}, calls : BOOLEAN, setup : {TRUE}, batch : {FALSE}]

\* a payload is some bytes or the empty bytes
Payloads == {"x", ""}

\* the backend holds messages 1..n
Sources ==
    UNION {[1..n -> Payloads] : n \in 0..MaxSource}

MsgAt(src, i) == [id |-> i, data |-> src[i]]

\* the timeouts a caller passes: multiples of PollsPerTimeout, so that
\* timeout / 10 is a whole number of time units
Timeouts == {k * PollsPerTimeout : k \in 0..MaxTimeoutSteps}

\* variant of PullAsserts without the `assert not self.calls`
PullAssertsStartedOnly(backend, started, calls) ==
    IF backend \in AssertsStarted /\ ~started THEN "AssertionError" ELSE "ok"

\* the two assert statements at the head of get_one and __aiter__
PullAsserts(backend, started, calls) ==
    IF backend \in AssertsStarted /\ ~started THEN "AssertionError"
    ELSE IF calls THEN "AssertionError"
    ELSE "ok"

\* variant of TimeoutMs that passes the timeout on unscaled
TimeoutMsUnscaled(timeout) == timeout

\* `timeout_ms=timeout * 1000`
TimeoutMs(timeout) == timeout * MsPerUnit

\* the client's own wait for a message is over: getmany(timeout_ms),
\* getone(timeout), next_msg(timeout)
ClientTimedOut(backend, timeout, elapsed) ==
    IF backend = "kafka"
    THEN elapsed * MsPerUnit >= TimeoutMs(timeout)
    ELSE elapsed >= timeout

\* `sleep_interval = timeout / 10`
SleepInterval(timeout) == timeout \div PollsPerTimeout

\* `if not raw_message`: None and the empty payload are both falsy
Falsy(raw) == raw = NoneMsg \/ raw.data = ""

\* process_msg(None, ...) returns None
ProcessMsg(raw) == IF raw = NoneMsg THEN 0 ELSE raw.id

Returned(v) == [pull EXCEPT !.status = "returned", !.value = v, !.phase = "none"]

InitPull ==
    /\ cfg \in PullConfigs
    /\ SubFresh
    /\ FacIdle
    /\ source \in Sources
    /\ pull = NoPull
    /\ taken = <<>>
    /\ given = <<>>
    /\ NamesIdle
    /\ BatIdle
    /\ PubIdle
    /\ RestIdle

\* the oldest message not yet removed from the backend
NextMsg == MsgAt(source, Len(taken) + 1)

SourceEmpty == Len(taken) = Len(source)

\* get_one(timeout): the asserts, then the first await of the fetch
GetOneCall ==
    /\ pull.status \in {"idle", "returned", "raised"}
    /\ pull.n < MaxPullCalls
    /\ cfg.backend = "nats" => consumer = "started"
    /\ \E t \in Timeouts :
          pull' = IF PullAsserts(cfg.backend, consumer = "started", cfg.calls) = "ok"
                  THEN [op |-> "get_one", status |-> "waiting", timeout |-> t,
                        elapsed |-> 0,
                        phase |-> IF cfg.backend = "redis" THEN "lpop" ELSE "client",
                        raw |-> NoneMsg, value |-> 0, emptyAtCall |-> SourceEmpty,
                        ready |-> consumer = "started", n |-> pull.n + 1,
                        slow |-> 0]
                  ELSE [op |-> "get_one", status |-> "raised", timeout |-> t,
                        elapsed |-> 0, phase |-> "none", raw |-> NoneMsg,
                        value |-> 0, emptyAtCall |-> SourceEmpty,
                        ready |-> consumer = "started", n |-> pull.n + 1,
                        slow |-> 0]
    /\ UNCHANGED <<source, taken, given>>
    /\ UNCHANGED <<subVars, lifeVars>>
    /\ UNCHANGED outsidePull

\* time passes while the client waits for a message
ClientWait ==
    /\ pull.status = "waiting"
    /\ pull.phase = "client"
    /\ SourceEmpty
    /\ ~ClientTimedOut(cfg.backend, pull.timeout, pull.elapsed)
    /\ pull' = [pull EXCEPT !.elapsed = @ + 1]
    /\ UNCHANGED <<source, taken, given>>
    /\ UNCHANGED <<subVars, lifeVars>>
    /\ UNCHANGED outsidePull

\* getmany / getone / next_msg returns a message, which process_msg
\* decodes and get_one returns
ClientMsg ==
    /\ pull.status = "waiting"
    /\ pull.phase = "client"
    /\ ~SourceEmpty
    /\ taken' = Append(taken, NextMsg)
    /\ given' = Append(given, NextMsg)
    /\ pull' = Returned(ProcessMsg(NextMsg))
    /\ UNCHANGED source
    /\ UNCHANGED <<subVars, lifeVars>>
    /\ UNCHANGED outsidePull

\* the client's wait ends without a message: getmany returns {}, getone
\* returns None, next_msg raises TimeoutError; get_one returns None
ClientEmpty ==
    /\ pull.status = "waiting"
    /\ pull.phase = "client"
    /\ SourceEmpty
    /\ ClientTimedOut(cfg.backend, pull.timeout, pull.elapsed)
    /\ pull' = Returned(ProcessMsg(NoneMsg))
    /\ UNCHANGED <<source, taken, given>>
    /\ UNCHANGED <<subVars, lifeVars>>
    /\ UNCHANGED outsidePull

\* the cancel scope of `anyio.move_on_after(timeout)` has reached its deadline
DeadlineReached(timeout, elapsed) == elapsed >= timeout

\* Redis get_one: `raw_message := await self._client.lpop(...)`.  At the
\* deadline the await may be cancelled, leaving raw_message as it was
RedisLpop ==
    /\ pull.status = "waiting"
    /\ pull.phase = "lpop"
    /\ \/ /\ DeadlineReached(pull.timeout, pull.elapsed)
          /\ pull' = [pull EXCEPT !.phase = "after"]
          /\ UNCHANGED taken
       \/ /\ SourceEmpty
          /\ pull' = [pull EXCEPT !.raw = NoneMsg, !.phase = "sleep"]
          /\ UNCHANGED taken
       \/ /\ ~SourceEmpty
          /\ pull' = [pull EXCEPT !.raw = NextMsg, !.phase = "after"]
          /\ taken' = Append(taken, NextMsg)
    /\ UNCHANGED <<source, given>>
    /\ UNCHANGED <<subVars, lifeVars>>
    /\ UNCHANGED outsidePull

\* Redis get_one: `await anyio.sleep(sleep_interval)`, cancelled at the
\* deadline
RedisSleep ==
    /\ pull.status = "waiting"
    /\ pull.phase = "sleep"
    /\ pull' = IF DeadlineReached(pull.timeout, pull.elapsed)
               THEN [pull EXCEPT !.phase = "after"]
               ELSE [pull EXCEPT !.elapsed = @ + SleepInterval(pull.timeout),
                                 !.phase = "lpop"]
    /\ UNCHANGED <<source, taken, given>>
    /\ UNCHANGED <<subVars, lifeVars>>
    /\ UNCHANGED outsidePull

\* Redis get_one after the cancel scope: `if not raw_message: return None`,
\* else process_msg and return
RedisAfter ==
    /\ pull.status = "waiting"
    /\ pull.phase = "after"
    /\ IF Falsy(pull.raw)
       THEN /\ pull' = Returned(ProcessMsg(NoneMsg))
            /\ UNCHANGED given
       ELSE /\ pull' = Returned(ProcessMsg(pull.raw))
            /\ given' = Append(given, pull.raw)
    /\ UNCHANGED <<source, taken>>
    /\ UNCHANGED <<subVars, lifeVars>>
    /\ UNCHANGED outsidePull

\* __aiter__ of the NATS core and Redis list subscribers: the asserts run
\* when the first item is asked for
IterCall ==
    /\ pull.status \in {"idle", "returned", "raised"}
    /\ pull.n < MaxPullCalls
    /\ cfg.backend \in IterBackends
    /\ cfg.backend = "nats" => consumer = "started"
    /\ pull' = [op |-> "iter",
                status |-> IF PullAsserts(cfg.backend, consumer = "started",
                                          cfg.calls) = "ok"
                           THEN "iterating" ELSE "raised",
                timeout |-> PollsPerTimeout, elapsed |-> 0,
                phase |-> IF cfg.backend = "redis" /\ ~cfg.calls
                                /\ consumer = "started"
                          THEN "lpop" ELSE "none",
                raw |-> NoneMsg, value |-> 0, emptyAtCall |-> SourceEmpty,
                ready |-> consumer = "started", n |-> pull.n + 1, slow |-> 0]
    /\ UNCHANGED <<source, taken, given>>
    /\ UNCHANGED <<subVars, lifeVars>>
    /\ UNCHANGED outsidePull

\* the NATS iterator takes the next message of fetch_sub.messages and
\* yields it
IterNext ==
    /\ pull.status = "iterating"
    /\ cfg.backend = "nats"
    /\ ~SourceEmpty
    /\ taken' = Append(taken, NextMsg)
    /\ given' = Append(given, NextMsg)
    /\ pull' = [pull EXCEPT !.value = ProcessMsg(NextMsg)]
    /\ UNCHANGED source
    /\ UNCHANGED <<subVars, lifeVars>>
    /\ UNCHANGED outsidePull

\* Redis iterator: `raw_message := await self._client.lpop(...)` inside
\* `anyio.move_on_after(timeout)`; time is counted in sleep intervals, of
\* which PollsPerTimeout make the timeout.  The await is cancelled when the
\* deadline falls into it, after the sleeps or because the reply is late,
\* and then raw_message keeps the value it had
IterLpop ==
    /\ pull.status = "iterating"
    /\ pull.phase = "lpop"
    /\ \/ /\ DeadlineReached(pull.timeout, pull.elapsed)
          /\ pull' = [pull EXCEPT !.phase = "after"]
          /\ UNCHANGED taken
       \/ /\ pull.slow < MaxSlowPolls
          /\ pull' = [pull EXCEPT !.phase = "after", !.elapsed = pull.timeout,
                                  !.slow = @ + 1]
          /\ UNCHANGED taken
       \/ /\ ~DeadlineReached(pull.timeout, pull.elapsed)
          /\ SourceEmpty
          /\ pull' = [pull EXCEPT !.raw = NoneMsg, !.phase = "sleep"]
          /\ UNCHANGED taken
       \/ /\ ~DeadlineReached(pull.timeout, pull.elapsed)
          /\ ~SourceEmpty
          /\ pull' = [pull EXCEPT !.raw = NextMsg, !.phase = "after"]
          /\ taken' = Append(taken, NextMsg)
    /\ UNCHANGED <<source, given>>
    /\ UNCHANGED <<subVars, lifeVars>>
    /\ UNCHANGED outsidePull

\* Redis iterator: `await anyio.sleep(sleep_interval)`
IterSleep ==
    /\ pull.status = "iterating"
    /\ pull.phase = "sleep"
    /\ pull' = [pull EXCEPT !.elapsed = @ + 1, !.phase = "lpop"]
    /\ UNCHANGED <<source, taken, given>>
    /\ UNCHANGED <<subVars, lifeVars>>
    /\ UNCHANGED outsidePull

\* Redis iterator after the cancel scope: `if not raw_message: continue`,
\* else process_msg and `yield msg`; the next round opens a new cancel
\* scope and raw_message is not reset
IterAfter ==
    /\ pull.status = "iterating"
    /\ pull.phase = "after"
    /\ IF Falsy(pull.raw)
       THEN /\ pull' = [pull EXCEPT !.phase = "lpop", !.elapsed = 0]
            /\ UNCHANGED given
       ELSE /\ pull' = [pull EXCEPT !.phase = "lpop", !.elapsed = 0,
                                    !.value = ProcessMsg(pull.raw)]
            /\ given' = Append(given, pull.raw)
    /\ UNCHANGED <<source, taken>>
    /\ UNCHANGED <<subVars, lifeVars>>
    /\ UNCHANGED outsidePull

\* start() and the pull calls of one subscriber; the consumption loop of
\* a subscriber with handlers is followed in Spec
NextPull ==
    \/ Start
    \/ GetOneCall
    \/ ClientWait
    \/ ClientMsg
    \/ ClientEmpty
    \/ RedisLpop
    \/ RedisSleep
    \/ RedisAfter
    \/ IterCall
    \/ IterNext
    \/ IterLpop
    \/ IterSleep
    \/ IterAfter

SpecPull == InitPull /\ [][NextPull]_vars

\* time passes and awaited client calls return
SpecPullFair == SpecPull /\ WF_vars(NextPull)

(***************************************************************************)
(* Destination names: add_prefix, topic_names and start of                 *)
(* kafka/subscriber/usecase.py and confluent/subscriber/usecase.py,        *)
(* add_prefix of confluent/publisher/usecase.py and of                     *)
(* redis/.../list_subscriber.py.  A name is a sequence of characters.      *)
(***************************************************************************)
MaxPrefixCalls == 2

MaxTopics == 2

\* the prefixes a caller passes, the empty one among them
Prefixes == {<<>>, <<"a">>, <<"b">>}

TopicNameSet == {<<"t">>, <<"u">>}

PartitionIds == {"0", "1"}

\* one to MaxTopics declared topics
TopicLists == UNION {[1..n -> TopicNameSet] : n \in 1..MaxTopics}

\* one to MaxTopics declared partitions
PartitionLists ==
    UNION {[1..n -> [topic : TopicNameSet, partition : PartitionIds]] :
              n \in 1..MaxTopics}

SubscriberKinds == {"kafka", "confluent"}

\* the subscribers and publishers add_prefix is examined on, as constructed
Entities ==
    {[NoEnt EXCEPT !.kind = k, !.topics = ts] :
        k \in SubscriberKinds, ts \in TopicLists}
    \cup
    {[NoEnt EXCEPT !.kind = k, !.partitions = ps] :
        k \in SubscriberKinds, ps \in PartitionLists}
    \cup
    {[NoEnt EXCEPT !.kind = "kafka", !.pattern = pt] : pt \in TopicNameSet}
    \cup
    {[NoEnt EXCEPT !.kind = k, !.name = n] :
        k \in {"confluent_publisher", "redis_list"}, n \in TopicNameSet}

\* f"{prefix}{t}"
Prefixed(prefix, t) == prefix \o t

\* `tuple(f"{prefix}{t}" for t in self.topics)`
PrefixTopics(prefix, ts) == [i \in DOMAIN ts |-> Prefixed(prefix, ts[i])]

\* `[TopicPartition(topic=f"{prefix}{p.topic}", partition=p.partition, ...)
\*   for p in self.partitions]`
PrefixPartitions(prefix, ps) ==
    [i \in DOMAIN ps |-> [ps[i] EXCEPT !.topic = Prefixed(prefix, ps[i].topic)]]

\* add_prefix of each class: the subscribers rewrite topics and partitions,
\* the publisher its topic, the Redis list subscriber the name of a copy of
\* list_sub
AddPrefixTo(e, prefix) ==
    IF e.kind \in SubscriberKinds
    THEN [e EXCEPT !.topics = PrefixTopics(prefix, e.topics),
                   !.partitions = PrefixPartitions(prefix, e.partitions)]
    ELSE [e EXCEPT !.name = Prefixed(prefix, e.name)]

\* f"{p.topic}-{p.partition}"
PartitionName(p) == p.topic \o <<"-", p.partition>>

\* the topic_names property
topic_names(e) ==
    IF e.kind = "kafka" /\ e.pattern # <<>> THEN <<e.pattern>>
    ELSE IF e.topics # <<>> THEN e.topics
    ELSE [i \in DOMAIN e.partitions |-> PartitionName(e.partitions[i])]

\* what start() opens the consumer with: Kafka subscribes to topics and
\* pattern or else assigns the partitions, Confluent passes topics and
\* partitions to the builder
BoundAtStart(e) ==
    IF e.kind = "kafka"
    THEN IF e.topics # <<>> \/ e.pattern # <<>>
         THEN [active |-> TRUE, topics |-> e.topics, pattern |-> e.pattern,
               partitions |-> <<>>]
         ELSE [active |-> TRUE, topics |-> <<>>, pattern |-> <<>>,
               partitions |-> e.partitions]
    ELSE [active |-> TRUE, topics |-> e.topics, pattern |-> <<>>,
          partitions |-> e.partitions]

InitNames ==
    /\ cfg = [backend |-> "kafka", policy |-> "DO_NOTHING", concurrent |-> FALSE,
              max_workers |-> 1, calls |-> FALSE, setup |-> FALSE, batch |-> FALSE]
    /\ SubFresh
    /\ FacIdle
    /\ PullIdle
    /\ ent \in Entities
    /\ orig = ent
    /\ prefixes = <<>>
    /\ bound = Unbound
    /\ BatIdle
    /\ PubIdle
    /\ RestIdle

\* add_prefix(prefix): no test of the subscriber's state precedes the
\* rewriting
AddPrefix ==
    /\ Len(prefixes) < MaxPrefixCalls
    /\ \E prefix \in Prefixes :
          /\ ent' = AddPrefixTo(ent, prefix)
          /\ prefixes' = Append(prefixes, prefix)
    /\ UNCHANGED <<orig, bound>>
    /\ UNCHANGED outsideNames

\* start() of a Kafka or Confluent subscriber opens the consumer on the
\* names declared at that moment
NamesStart ==
    /\ ent.kind \in SubscriberKinds
    /\ ~bound.active
    /\ bound' = BoundAtStart(ent)
    /\ UNCHANGED <<ent, orig, prefixes>>
    /\ UNCHANGED outsideNames

\* close() stops the consumer and drops it
NamesClose ==
    /\ bound.active
    /\ bound' = Unbound
    /\ UNCHANGED <<ent, orig, prefixes>>
    /\ UNCHANGED outsideNames

NextNames ==
    \/ AddPrefix
    \/ NamesStart
    \/ NamesClose

SpecNames == InitNames /\ [][NextNames]_vars

(***************************************************************************)
(* start() of kafka/subscriber/usecase.py, statement by statement: how the *)
(* consumer is bound to the declared destinations.                         *)
(***************************************************************************)
\* Kafka subscribers declaring any combination of topics, a pattern and
\* partitions, none at all included
BindEntities ==
    {[NoEnt EXCEPT !.kind = "kafka", !.topics = ts, !.pattern = pt, !.partitions = ps] :
        ts \in {<<>>} \cup TopicLists, pt \in {<<>>} \cup TopicNameSet,
        ps \in {<<>>} \cup PartitionLists}

\* variant of BindingCalls with `if self.partitions` in place of
\* `elif self.partitions`
BindingCallsBoth(e) ==
    (IF e.topics # <<>> \/ e.pattern # <<>> THEN <<"subscribe">> ELSE <<>>)
    \o (IF e.partitions # <<>> THEN <<"assign">> ELSE <<>>)

\* `if self.topics or self._pattern: consumer.subscribe(...)`
\* `elif self.partitions: consumer.assign(...)`
BindingCalls(e) ==
    IF e.topics # <<>> \/ e.pattern # <<>> THEN <<"subscribe">>
    ELSE IF e.partitions # <<>> THEN <<"assign">>
    ELSE <<>>

InitBind ==
    /\ cfg \in {c \in Configs : c.backend = "kafka" /\ ~c.concurrent
                                /\ c.policy = "DO_NOTHING"}
    /\ SubFresh
    /\ FacIdle
    /\ PullIdle
    /\ ent \in BindEntities
    /\ orig = ent
    /\ prefixes = <<>>
    /\ bound = Unbound
    /\ BatIdle
    /\ PubIdle
    /\ PartIdle
    /\ NatsIdle
    /\ BindIdle

\* start() up to its first await: the assert, the builder call, the
\* binding, and `await consumer.start()` entered
BindStartCall ==
    /\ spc = "idle"
    /\ IF ~cfg.setup
       THEN /\ spc' = "AssertionError"
            /\ startResult' = "AssertionError"
            /\ UNCHANGED <<trace, bound>>
       ELSE /\ trace' = <<"builder">> \o BindingCalls(ent) \o <<"consumer.start">>
            /\ bound' = BoundAtStart(ent)
            /\ spc' = "starting"
            /\ UNCHANGED startResult
    /\ UNCHANGED <<ent, orig, prefixes>>
    /\ UNCHANGED subVars
    /\ UNCHANGED <<closing, closedWith, stops, closes, leaked, extraTasks>>
    /\ UNCHANGED <<facVars, pullVars, bat, pubVars, part, natsVars>>

\* consumer.start() has returned: `await super().start()`, then
\* `if self.calls: self.add_task(self._consume())`
BindStartFinish ==
    /\ spc = "starting"
    /\ consumer' = "started"
    /\ running' = TRUE
    /\ startResult' = "ok"
    /\ trace' = trace \o (IF LaunchesLoop(cfg.calls) THEN <<"add_task">> ELSE <<>>)
    /\ pc' = IF LaunchesLoop(cfg.calls) THEN "fetch" ELSE "idle"
    /\ spc' = "done"
    /\ UNCHANGED <<cfg, connected, stopped, msg, fetched, failures, sleeps, clock, queue,
                   enqueued, inflight, outcome, done, log>>
    /\ UNCHANGED <<closing, closedWith, stops, closes, leaked, extraTasks>>
    /\ UNCHANGED <<facVars, pullVars, nameVars, bat, pubVars, part, natsVars>>

NextBind ==
    \/ BindStartCall
    \/ BindStartFinish

SpecBind == InitBind /\ [][NextBind]_vars

(***************************************************************************)
(* Properties                                                              *)
(***************************************************************************)
\* positions of the engine-issued ack/nack calls on message m
AckIdx(m) == {i \in DOMAIN log : log[i].m = m /\ log[i].op \in {"ack", "nack"}}

\* positions of the handler invocations on message m
HandlerIdx(m) == {i \in DOMAIN log : log[i].m = m /\ log[i].op = "handler"}

\* the ack/nack calls the backend has seen, in order
BackendLog == SelectSeq(log, LAMBDA x : x.op \in {"ack", "nack"})

\* the ack/nack the table prescribes after a handler outcome
Expected(o) == IF o = "ok" THEN "ack" ELSE "nack"

\* C1: for every policy and both handler outcomes the engine issues exactly
\* the table's calls: AckFirst one ack before the handler and nothing after
\* it, RejectOnError nothing before the handler and then one ack (success)
\* or one nack (failure), ManualAck and DoNothing nothing; no message gets
\* more than one engine-issued ack/nack.
C1_AckTable ==
    \A m \in 1..Len(fetched) :
        /\ Cardinality(AckIdx(m)) <= 1
        /\ Cardinality(HandlerIdx(m)) <= 1
        /\ cfg.policy \in {"MANUAL", "DO_NOTHING"} => AckIdx(m) = {}
        /\ cfg.policy = "ACK_FIRST" =>
              /\ \A i \in AckIdx(m) : log[i].op = "ack"
              /\ \A h \in HandlerIdx(m) : \E i \in AckIdx(m) : i < h
              /\ m \in done => AckIdx(m) # {}
        /\ cfg.policy = "REJECT_ON_ERROR" =>
              /\ \A i \in AckIdx(m) :
                    /\ \E h \in HandlerIdx(m) : h < i
                    /\ log[i].op = Expected(outcome[m])
              /\ m \in done => AckIdx(m) # {}

\* C1 witness: under AckFirst a failed handler has run to completion and the
\* log holds the single ack in front of the handler invocation
C1_Witness ==
    /\ cfg.policy = "ACK_FIRST"
    /\ 1 \in done
    /\ outcome[1] = "fail"
    /\ log = <<[op |-> "ack", m |-> 1], [op |-> "handler", m |-> 1]>>

\* C2: sequential mode with RejectOnError: the backend sees the ack/nack
\* calls in fetch order, each matching its handler outcome, and a fetch is
\* awaited only when the handler and ack step of every earlier message are
\* complete.
C2_SequentialOrder ==
    (~cfg.concurrent /\ cfg.policy = "REJECT_ON_ERROR") =>
        /\ Len(BackendLog) <= Len(fetched)
        /\ \A i \in DOMAIN BackendLog :
              /\ BackendLog[i].m = fetched[i]
              /\ BackendLog[i].op = Expected(outcome[fetched[i]])
        /\ pc \in {"fetch", "sleep"} =>
              /\ Len(BackendLog) = Len(fetched)
              /\ \A m \in 1..Len(fetched) : m \in done
              /\ inflight = {}

\* C2 witness: the handler failed on the first message and succeeded on the
\* second; the backend has seen nack(1) then ack(2)
C2_Witness ==
    /\ ~cfg.concurrent
    /\ cfg.policy = "REJECT_ON_ERROR"
    /\ fetched = <<1, 2>>
    /\ BackendLog = <<[op |-> "nack", m |-> 1], [op |-> "ack", m |-> 2]>>
    /\ pc = "fetch"

\* C3: every fetch that raised the transient class is followed by one sleep
\* of 5 time units and there is no other sleep; such failures neither end
\* the loop nor raise out of it; a message returned afterwards is handed to
\* the handler path.
C3_TransientBackoff ==
    /\ pc \in {"fetch", "consume", "put"} => sleeps = failures
    /\ pc = "sleep" => sleeps + 1 = failures
    /\ sleeps <= failures
    /\ clock = BackoffInterval * sleeps
    /\ (running /\ cfg.calls /\ ~stopped) =>
          pc \in {"fetch", "sleep", "consume", "put"}
    /\ running =>
          \A m \in 1..Len(fetched) :
              \/ m \in done
              \/ \E e \in inflight : e.m = m
              \/ \E i \in DOMAIN queue : queue[i] = m
              \/ pc = "put" /\ msg = m

\* C3 witness: the first two fetches failed, the third returned a message,
\* two sleeps of 5 were taken and the message went through the handler
C3_Witness ==
    /\ running
    /\ ~stopped
    /\ failures = 2
    /\ sleeps = 2
    /\ clock = 10
    /\ fetched = <<1>>
    /\ HandlerIdx(1) # {}

\* C4: when the client reports itself stopped the loop of every backend
\* ends by returning: no backoff sleep, no dispatch, no exception raised out
\* of the task.
C4_TerminalEndsLoop ==
    stopped => pc = "returned"

\* C10: fan-out mode: the sequence of enqueues equals the sequence of
\* fetches, nothing lost and nothing duplicated; only the message the loop
\* is pushing right now is fetched and not yet enqueued.
C10_EnqueueOrder ==
    cfg.concurrent =>
        /\ Len(enqueued) <= Len(fetched)
        /\ \A i \in DOMAIN enqueued : enqueued[i] = fetched[i]
        /\ \A i, j \in DOMAIN enqueued : i # j => enqueued[i] # enqueued[j]
        /\ pc = "put" => fetched = Append(enqueued, msg)
        /\ pc \in {"fetch", "sleep", "returned", "raised"} => enqueued = fetched
        /\ running => Len(fetched) - Len(enqueued) <= 1

\* C10 witness: a running fan-out subscriber has fetched two messages and
\* pushed both, in that order
C10_Witness ==
    /\ cfg.concurrent
    /\ running
    /\ fetched = <<1, 2>>
    /\ enqueued = <<1, 2>>

\* C11: fan-out mode: the queue never holds more than max_workers items,
\* and while the loop is blocked in the push of a message it fetches
\* nothing and enqueues nothing until a worker has taken an item.
C11_QueueBound ==
    /\ [](cfg.concurrent => Len(queue) <= cfg.max_workers)
    /\ [][(cfg.concurrent /\ pc = "put" /\ Len(queue) >= cfg.max_workers) =>
            (fetched' = fetched /\ enqueued' = enqueued)]_vars
    /\ [][fetched' # fetched => pc = "fetch"]_vars

\* C11 witness: the queue is full and the running loop waits in the push
\* of the next message
C11_Witness ==
    /\ cfg.concurrent
    /\ running
    /\ pc = "put"
    /\ Len(queue) = cfg.max_workers
    /\ Len(fetched) = Len(enqueued) + 1

\* the log a subscriber leaves when it handles messages 1..n one after the
\* other: pre-handler hook, handler, post-handler hook of each in turn
RECURSIVE Canonical(_)
Canonical(n) ==
    IF n = 0
    THEN <<>>
    ELSE Canonical(n - 1) \o Issue(AckPre(cfg.policy), n)
             \o <<[op |-> "handler", m |-> n]>>
             \o Issue(AckPost(cfg.policy, outcome[n] = "ok"), n)

IsPrefix(s, t) == Len(s) <= Len(t) /\ \A i \in DOMAIN s : s[i] = t[i]

\* C12: a fan-out subscriber with max_workers = 1 and a sequential one
\* leave the same log: for the same fetched messages and handler outcomes
\* the handler invocations and ack/nack calls are those of handling the
\* messages one after the other in fetch order.
C12_OneWorkerIsSequential ==
    (~cfg.concurrent \/ cfg.max_workers = 1) =>
        /\ IsPrefix(log, Canonical(Len(fetched)))
        /\ (\A m \in 1..Len(fetched) : m \in done) => log = Canonical(Len(fetched))

\* C12 witness: a one-worker fan-out subscriber under RejectOnError failed
\* on the first message and succeeded on the second
C12_Witness ==
    /\ cfg.concurrent
    /\ cfg.max_workers = 1
    /\ cfg.policy = "REJECT_ON_ERROR"
    /\ done = {1, 2}
    /\ log = <<[op |-> "handler", m |-> 1], [op |-> "nack", m |-> 1],
               [op |-> "handler", m |-> 2], [op |-> "ack", m |-> 2]>>

\* C13: once close() of a fan-out subscriber has begun the loop awaits no
\* fetch; every execution under way at that moment stays in flight until
\* it is done; the consumer is stopped only when all of them are done.
C13_CloseDrains ==
    cfg.concurrent =>
        /\ closing # "idle" => pc \notin {"fetch", "sleep", "consume", "put"}
        /\ \A m \in closedWith : m \in done \/ \E e \in inflight : e.m = m
        /\ closing = "done" => (closedWith \subseteq done /\ inflight = {})
        /\ inflight # {} => consumer = "started"

\* C13 witness: close() began with the handler of message 1 under way and
\* ended after its post-handler hook issued the nack
C13_Witness ==
    /\ cfg.concurrent
    /\ cfg.policy = "REJECT_ON_ERROR"
    /\ closing = "done"
    /\ consumer = "none"
    /\ closedWith = {1}
    /\ log = <<[op |-> "handler", m |-> 1], [op |-> "nack", m |-> 1]>>

\* C20: start() fails exactly when _setup has not bound the builder and
\* then opens nothing; a successful start opens the consumer and launches
\* the loop iff a handler is registered; before start nothing is opened or
\* fetched, and every fetch follows a successful start.
C20_StartContract ==
    /\ startResult = "AssertionError" => ~cfg.setup
    /\ startResult = "ok" => cfg.setup
    /\ startResult # "ok" =>
          /\ consumer = "none"
          /\ ~running
          /\ pc = "idle"
          /\ fetched = <<>>
          /\ failures = 0
          /\ log = <<>>
    /\ startResult = "ok" =>
          /\ pc # "idle" <=> cfg.calls
          /\ consumer = "started" <=> closing # "done"

\* C20 witness: a subscriber without handlers has started: the consumer is
\* open and no loop runs
C20_Witness ==
    /\ startResult = "ok"
    /\ ~cfg.calls
    /\ consumer = "started"
    /\ running
    /\ pc = "idle"

\* C14: on a subscriber with a registered handler get_one and iteration
\* raise at the call, before any message is removed from the backend or
\* handed to the caller; start() of such a subscriber does not fail.
C14_PullWithHandlersFails ==
    cfg.calls =>
        /\ pull.op # "none" => pull.status = "raised"
        /\ taken = <<>>
        /\ given = <<>>
        /\ startResult # "AssertionError"

\* C14 witness: a started subscriber with a handler and a waiting message
\* refused iteration
C14_Witness ==
    /\ cfg.calls
    /\ startResult = "ok"
    /\ Len(source) > 0
    /\ pull.op = "iter"
    /\ pull.status = "raised"
    /\ pull.ready

\* C15: get_one(timeout) on a started subscriber without handlers whose
\* source is empty does not raise, returns None, returns no earlier than
\* timeout after the call, and does return.
C15_GetOneTimeout ==
    /\ []((pull.op = "get_one" /\ pull.ready /\ pull.emptyAtCall /\ ~cfg.calls) =>
            /\ pull.status # "raised"
            /\ pull.status = "returned" =>
                  (pull.value = 0 /\ pull.elapsed >= pull.timeout))
    /\ ((pull.op = "get_one" /\ pull.status = "waiting") ~> pull.status = "returned")

\* C15 witness: a Redis get_one with a positive timeout on an empty list
\* has returned None
C15_Witness ==
    /\ cfg.backend = "redis"
    /\ pull.op = "get_one"
    /\ pull.emptyAtCall
    /\ pull.timeout > 0
    /\ pull.status = "returned"
    /\ pull.value = 0
    /\ pull.elapsed = pull.timeout

\* C16: pull access invokes no handler, leaves the loop and the fan-out
\* queue alone and issues no ack or nack, and every message it removes
\* from the backend is returned or yielded to the caller.
C16_PullFrame ==
    /\ log = <<>>
    /\ queue = <<>>
    /\ enqueued = <<>>
    /\ inflight = {}
    /\ ~cfg.calls => pc = "idle"
    /\ pull.phase # "after" => given = taken

\* the prefixes of a call history, concatenated in reverse call order
RECURSIVE ReversePrefix(_)
ReversePrefix(ps) ==
    IF ps = <<>> THEN <<>> ELSE ReversePrefix(Tail(ps)) \o Head(ps)

\* every declared destination name: topics, the topics of the declared
\* partitions, the pattern, and the publisher topic or list name
DeclaredNames(e) ==
    e.topics
        \o [i \in DOMAIN e.partitions |-> e.partitions[i].topic]
        \o (IF e.pattern # <<>> THEN <<e.pattern>> ELSE <<>>)
        \o (IF e.name # <<>> THEN <<e.name>> ELSE <<>>)

\* C17: after any sequence of add_prefix calls every declared destination
\* name is the prefixes, concatenated in reverse call order, in front of
\* the original name; the empty prefix changes nothing.
C17_PrefixComposition ==
    /\ Len(DeclaredNames(ent)) = Len(DeclaredNames(orig))
    /\ \A i \in DOMAIN DeclaredNames(ent) :
          DeclaredNames(ent)[i] = ReversePrefix(prefixes) \o DeclaredNames(orig)[i]

\* C18: after add_prefix(p) every name topic_names reports begins with p,
\* and topic_names reports as many names as before, in the same order.
C18_TopicNamesPrefixed ==
    prefixes # <<>> =>
        /\ Len(topic_names(ent)) = Len(topic_names(orig))
        /\ \A i \in DOMAIN topic_names(ent) :
              /\ IsPrefix(prefixes[Len(prefixes)], topic_names(ent)[i])
              /\ topic_names(ent)[i] =
                    ReversePrefix(prefixes) \o topic_names(orig)[i]

\* C19: while the consumer is open, the declared topics, pattern and
\* partitions are those the consumer was opened with.
C19_NamesFixedWhileStarted ==
    bound.active => bound = BoundAtStart(ent)

\* C29: the Redis list iterator yields what it pops: between two rounds
\* the yielded messages are the popped messages, each once, in pop order.
C29_IteratorYieldsPopped ==
    (cfg.backend = "redis" /\ pull.op = "iter" /\ pull.n = 1 /\
     pull.status = "iterating" /\ pull.phase = "lpop") => given = taken

\* C30: Redis get_one returns None only when it removed nothing from the
\* list, and an envelope for the element whenever it removed one.
C30_GetOneLosesNothing ==
    (cfg.backend = "redis" /\ pull.op = "get_one" /\ pull.status = "returned") =>
        (pull.value = 0 <=> pull.raw = NoneMsg)

\* C21: on a subscriber started once: while close() waits for the tasks
\* the loop is already cancelled and the consumer not yet stopped; after
\* close() the loop is cancelled, nothing is fetched or handled any more,
\* consumer.stop() has been called exactly once and self.consumer is None;
\* a further close() stops nothing.
C21_CloseReleasesOnce ==
    /\ [](leaked = 0 =>
            /\ closing = "draining" =>
                  /\ pc \notin {"fetch", "sleep", "consume", "put"}
                  /\ consumer = "started"
                  /\ stops = 0
            /\ closing = "done" =>
                  /\ pc \notin {"fetch", "sleep", "consume", "put"}
                  /\ LoopTasks = 0
                  /\ consumer = "none"
                  /\ stops = 1
            /\ consumer = "none" => stops = (IF closing = "done" THEN 1 ELSE 0))
    /\ [][(leaked = 0 /\ closing = "done") =>
            (fetched' = fetched /\ log' = log /\ stops' = stops)]_vars

\* C21 witness: a subscriber that handled a message has been closed twice
C21_Witness ==
    /\ leaked = 0
    /\ closing = "done"
    /\ closes = 2
    /\ stops = 1
    /\ consumer = "none"
    /\ 1 \in done

\* C27: a message whose handler, parser or decoder raised is answered by
\* exactly one nack under RejectOnError and by no nack under the other
\* policies; the failure does not end the loop, which leaves its cycle and
\* stays alive until close() or a terminal fetch error.
C27_FailureContained ==
    /\ \A m \in done :
          outcome[m] = "fail" =>
              /\ cfg.policy = "REJECT_ON_ERROR" =>
                    /\ Cardinality(AckIdx(m)) = 1
                    /\ \A i \in AckIdx(m) : log[i].op = "nack"
              /\ cfg.policy # "REJECT_ON_ERROR" =>
                    \A i \in AckIdx(m) : log[i].op # "nack"
    /\ pc = "raised" => stopped
    /\ (running /\ cfg.calls /\ ~stopped) =>
          pc \in {"fetch", "sleep", "consume", "put"}
    /\ (~cfg.concurrent /\ pc = "consume") =>
          \E e \in inflight : e.m = Len(fetched)

\* C27 witness: under RejectOnError the first message failed to parse, the
\* second made its handler raise, both were nacked and the loop awaits the
\* next fetch
C27_Witness ==
    /\ ~cfg.concurrent
    /\ cfg.policy = "REJECT_ON_ERROR"
    /\ running
    /\ pc = "fetch"
    /\ log = <<[op |-> "nack", m |-> 1], [op |-> "handler", m |-> 2],
               [op |-> "nack", m |-> 2]>>

\* C28: at most one _consume task and at most one open client handle exist
\* in every state, whatever start and close calls are made.
C28_SingleLoopSingleHandle ==
    /\ OpenHandles <= 1
    /\ LoopTasks <= 1

\* C5: create_subscriber raises SetupError exactly when a deprecated toggle
\* comes together with an explicit ack_policy; a call with ack_policy unset
\* is accepted whatever toggles it supplies.
C5_SetupErrorIff ==
    result.status # "pending" =>
        (result.status = "SetupError" <=>
            (call.ack_policy # EMPTY /\
             (call.auto_commit # EMPTY \/ call.no_ack # EMPTY)))

\* C6: the Confluent factory raises SetupError whenever max_workers > 1 and
\* the resolved policy is not AckFirst; no Concurrent subscriber is built
\* with another policy.
C6_NoFanoutWithManualCommit ==
    (call.backend = "confluent" /\ result.status # "pending") =>
        /\ (call.max_workers > 1 /\
            ConfluentResolve(call.ack_policy, call.auto_commit, call.no_ack)
                # "ACK_FIRST") => result.status = "SetupError"
        /\ result.variant = "Concurrent" => result.resolved = "ACK_FIRST"

\* C7: with ack_policy unset the Confluent factory resolves auto_commit=True
\* to AckFirst, auto_commit=False to RejectOnError, no_ack=True to DoNothing
\* and no toggle at all to AckFirst.
C7_ToggleResolution ==
    (call.backend = "confluent" /\ result.status = "built" /\
     call.ack_policy = EMPTY) =>
        /\ call.auto_commit = "True" => result.resolved = "ACK_FIRST"
        /\ call.auto_commit = "False" => result.resolved = "REJECT_ON_ERROR"
        /\ call.no_ack = "True" => result.resolved = "DO_NOTHING"
        /\ (call.auto_commit = EMPTY /\ call.no_ack = EMPTY) =>
              result.resolved = "ACK_FIRST"

\* C7 witness: a subscriber built from auto_commit=False alone
C7_Witness ==
    /\ call.backend = "confluent"
    /\ result.status = "built"
    /\ call.ack_policy = EMPTY
    /\ call.auto_commit = "False"
    /\ result.resolved = "REJECT_ON_ERROR"

\* C8: every subscriber a factory builds is configured with one of the four
\* legal ack policies; the unset sentinel never reaches its configuration.
C8_PolicyIsLegal ==
    result.status = "built" => result.ack_policy \in AckPolicy

\* C9: the Confluent factory sets enable_auto_commit exactly when the
\* resolved policy is AckFirst, and then hands DoNothing to the engine,
\* whose table issues no ack and no nack under it.
C9_AutoCommitIffAckFirst ==
    (call.backend = "confluent" /\ result.status = "built") =>
        /\ result.enable_auto_commit <=> result.resolved = "ACK_FIRST"
        /\ result.resolved = "ACK_FIRST" =>
              /\ result.ack_policy = "DO_NOTHING"
              /\ AckPre(result.ack_policy) = "none"
              /\ \A ok \in BOOLEAN : AckPost(result.ack_policy, ok) = "none"

\* C9 witness: a subscriber built with the explicit policy AckFirst
C9_Witness ==
    /\ call.backend = "confluent"
    /\ result.status = "built"
    /\ call.ack_policy = "ACK_FIRST"
    /\ result.enable_auto_commit
    /\ result.ack_policy = "DO_NOTHING"

\* the records of a fetch result, each with its place in fetch order: record
\* i of partition list p stands after all records of the lists before p
PlaceIn(backend, r) ==
    IF backend = "confluent" THEN {<<i, r[i]>> : i \in DOMAIN r}
    ELSE LET Before(p) == Cardinality({<<q, j>> \in (DOMAIN r) \X (1..MaxRecords + 1) :
                                          q < p /\ j \in DOMAIN r[q]})
         IN  {<<Before(pi[1]) + pi[2], r[pi[1]][pi[2]]>> :
                 pi \in {x \in (DOMAIN r) \X (1..MaxRecords + 1) : x[2] \in DOMAIN r[x[1]]}}

\* the ack/nack operations the backend has seen for record x of the last
\* fetch: those issued on the envelope that holds it
RecordOps(x) ==
    IF \E i \in DOMAIN bat.env : bat.env[i] = x
    THEN {log[i].op : i \in AckIdx(Len(fetched))}
    ELSE {}

\* C26: in batch mode every fetch that returned records produced exactly one
\* envelope holding all records of that fetch in fetch order, the handler ran
\* at most once per envelope, at most one ack or nack was issued per envelope,
\* and so no record of a batch is acked while another record of the same
\* batch is nacked, and no record is both acked and nacked.
C26_BatchIsUnit ==
    /\ Len(fetched) = bat.fetches
    /\ bat.fetches > 0 =>
          {<<i, bat.env[i]>> : i \in DOMAIN bat.env} = PlaceIn(cfg.backend, bat.result)
    /\ \A k \in DOMAIN fetched :
          /\ Cardinality(HandlerIdx(k)) <= 1
          /\ Cardinality(AckIdx(k)) <= 1
    /\ \A x, y \in (bat.records - MaxRecords)..bat.records :
          /\ Cardinality(RecordOps(x)) <= 1
          /\ (\E i, j \in DOMAIN bat.env : bat.env[i] = x /\ bat.env[j] = y)
                => RecordOps(x) = RecordOps(y)

\* a second fetch that spanned two partitions became one envelope of two
\* records, the handler failed on it and the whole envelope was nacked
C26_Witness ==
    /\ cfg.backend = "kafka"
    /\ bat.fetches = 2
    /\ Len(bat.result) = 2
    /\ Len(bat.env) = 2
    /\ HandlerIdx(Len(fetched)) # {}
    /\ \A i \in DOMAIN bat.env : RecordOps(bat.env[i]) = {"nack"}

\* the value a headers dict holds for name n
ValuesOf(d, n) == {kv[2] : kv \in {x \in d : x[1] = n}}

\* C22: the headers of every command built by publish, batch publish or
\* request are the union of the publisher's default headers and the caller's
\* headers, the caller's value standing under every name both define, and
\* the publisher's stored default headers are those it was created with.
C22_HeadersMerged ==
    /\ publisher.kind \in {"default", "batch"} =>
          publisher.headers = OrEmpty(publisher.arg.headers)
    /\ cmd.id # 0 =>
          \A n \in HeaderNames :
             LET callers == ValuesOf(OrEmpty(cmd.arg.headers), n)
                 stored == ValuesOf(OrEmpty(publisher.arg.headers), n)
             IN  ValuesOf(cmd.headers, n) = IF callers # {} THEN callers ELSE stored

\* a request whose caller redefines the publisher's header "a": the command
\* carries the caller's value for "a" and the publisher's for "b"
C22_Witness ==
    /\ cmd.type = "request"
    /\ ValuesOf(publisher.headers, "a") = {"d"}
    /\ ValuesOf(OrEmpty(cmd.arg.headers), "a") = {"c"}
    /\ ValuesOf(cmd.headers, "a") = {"c"}
    /\ ValuesOf(cmd.headers, "b") = {"d"}

\* C23: every command built carries a non-empty correlation id, the caller's
\* when the caller supplied a non-empty one and otherwise one that no earlier
\* command carried; every call builds a command of its own.
C23_CorrelationIdPresent ==
    /\ cmd.id = Len(cids)
    /\ \A i \in DOMAIN cids : TruthyId(cids[i])
    /\ \A i, j \in DOMAIN cids :
          (i # j /\ cids[i].kind = "uuid") => cids[i] # cids[j]
    /\ cmd.id # 0 =>
          /\ cmd.correlation_id = cids[Len(cids)]
          /\ TruthyId(cmd.arg.correlation_id) => cmd.correlation_id = cmd.arg.correlation_id
          /\ ~TruthyId(cmd.arg.correlation_id) => cmd.correlation_id.kind = "uuid"

\* two calls without a correlation id, the second with the empty string:
\* two commands with two different generated ids
C23_Witness ==
    /\ Len(cids) = 2
    /\ cids[1].kind = "uuid"
    /\ cids[2].kind = "uuid"
    /\ cids[1] # cids[2]
    /\ cmd.arg.correlation_id.kind = "empty"
    /\ cmd.type = "batch"

\* C24: create_publisher raises SetupError exactly for batch=True with a
\* non-empty key, and then no publisher exists and nothing is ever sent; a
\* batch publisher without key and a non-batch publisher with a key are
\* built; a batch publish command carries no key.
C24_BatchKeyRejected ==
    /\ publisher.kind # "none" =>
          /\ publisher.kind = "SetupError" <=>
                (publisher.arg.batch /\ publisher.arg.key \notin {"None", ""})
          /\ publisher.kind = "batch" <=>
                (publisher.arg.batch /\ publisher.arg.key \in {"None", ""})
          /\ publisher.kind = "default" <=> ~publisher.arg.batch
    /\ publisher.kind \in {"none", "SetupError"} =>
          (cmd = NoCmd /\ cids = <<>> /\ req = NoReq)
    /\ cmd.type = "batch" => cmd.key = "None"

\* create_publisher(batch=True, key=b"k") has raised
C24_Witness ==
    /\ publisher.kind = "SetupError"
    /\ publisher.arg.batch
    /\ publisher.arg.key = "k"

\* C25: a request publishes its command and then either returns a response
\* with the correlation id of that command or fails with the timeout error
\* when the timeout (0.5 unless the caller passes one) has passed: not
\* before, and a waiting request always ends; the command stays published,
\* and the step that raises the timeout changes nothing of any subscriber.
C25_RequestTimesOut ==
    /\ [](/\ cmd.type = "request" =>
               /\ cmd.timeout \in {RequestDefaultTimeout, CallerTimeout}
               /\ req.status \in {"waiting", "returned", "Timeout"}
               /\ req.published
               /\ req.elapsed <= cmd.timeout
               /\ req.status = "returned" =>
                     (req.response = cmd.correlation_id /\ req.elapsed < cmd.timeout)
               /\ req.status = "Timeout" =>
                     (req.elapsed = cmd.timeout /\ cmd.timeout > 0))
    /\ [][(req.status = "waiting" /\ req'.status = "Timeout") =>
             (/\ cids' = cids
              /\ cmd' = cmd
              /\ req'.published
              /\ UNCHANGED <<subVars, lifeVars>>)]_vars
    /\ (req.status = "waiting") ~> (req.status \in {"returned", "Timeout"})

\* request("ping") with the default timeout and no reply has raised the
\* timeout error after 0.5
C25_Witness ==
    /\ cmd.type = "request"
    /\ cmd.timeout = RequestDefaultTimeout
    /\ req.status = "Timeout"
    /\ req.elapsed = RequestDefaultTimeout
    /\ req.published

\* C35: the Confluent create_subscriber, when it returns, returns the Batch
\* variant exactly when batch is true, the Concurrent variant exactly when
\* batch is false and max_workers > 1, and the Default variant otherwise.
C35_VariantByFlags ==
    (call.backend = "confluent" /\ result.status = "built") =>
        /\ result.variant \in {"Batch", "Concurrent", "Default"}
        /\ result.variant = "Batch" <=> call.batch
        /\ result.variant = "Concurrent" <=> (~call.batch /\ call.max_workers > 1)
        /\ result.variant = "Default" <=> (~call.batch /\ call.max_workers <= 1)

\* create_subscriber(batch=True, max_workers=2) has returned the Batch variant
C35_Witness ==
    /\ call.backend = "confluent"
    /\ result.status = "built"
    /\ call.batch
    /\ call.max_workers > 1
    /\ result.variant = "Batch"

\* C37: a Kafka Default subscriber and a Kafka Batch subscriber hand their
\* parser the non-ackable message class exactly under AckFirst and the
\* ackable class under the other three policies, so for every policy the two
\* variants take the same class.
C37_SameMessageClass ==
    (cfg.backend = "kafka" /\ cfg.policy \in AckPolicy) =>
        /\ \A v \in {"Default", "Batch"} :
              /\ KafkaMsgClass(v, cfg.policy) = "KafkaMessage"
                    <=> cfg.policy = "ACK_FIRST"
              /\ KafkaMsgClass(v, cfg.policy) = "KafkaAckableMessage"
                    <=> cfg.policy \in {"REJECT_ON_ERROR", "MANUAL", "DO_NOTHING"}
        /\ KafkaMsgClass("Default", cfg.policy) = KafkaMsgClass("Batch", cfg.policy)

\* a Kafka batch subscriber built with AckFirst, started and consuming
C37_Witness ==
    /\ cfg.backend = "kafka"
    /\ cfg.policy = "ACK_FIRST"
    /\ KafkaMsgClass("Batch", cfg.policy) = "KafkaMessage"
    /\ consumer = "started"
    /\ bat.fetches > 0

\* C38: a Confluent subscriber built by create_subscriber has a parser in
\* manual-commit mode exactly when the policy resolved from the caller's
\* arguments is not AckFirst.
C38_ManualIffNotAckFirst ==
    (call.backend = "confluent" /\ result.status = "built") =>
        (result.is_manual <=> result.resolved # "ACK_FIRST")

\* C40: the command of a publish or request carries the caller's partition
\* whenever the caller supplies one, 0 included, and the publisher's default
\* partition only when the caller supplies none.
C40_CallerPartitionWins ==
    part.status = "built" =>
        part.partition = IF part.arg # -1 THEN part.arg ELSE part.default

\* the subscriptions of one kind the client has created
NatsSubs(kind) == {i \in DOMAIN nlog.subs : nlog.subs[i] = kind}

\* C31: a NATS core subscriber has the client create at most one subscription
\* for pull access, and every get_one and iterator call reads from it.
C31_OneFetchSubscription ==
    /\ Cardinality(NatsSubs("pull")) <= 1
    /\ \A r1, r2 \in nlog.reads : r1.sub = r2.sub

\* C32: however often _create_subscription is called, the client creates at
\* most one push subscription, and in the concurrent variant the workers are
\* started when the subscription is created, so no message is pushed into
\* the queue before workers exist.
C32_OnePushSubscription ==
    /\ Cardinality(NatsSubs("push")) <= 1
    /\ nats.concurrent =>
          /\ NatsSubs("push") # {} => nats.workers
          /\ nlog.unserved = 0
    /\ nats.subscription # 0 => nats.subscription \in NatsSubs("push")

\* _create_subscription has been called twice on a concurrent subscriber,
\* the second call found the subscription, and messages were pushed
C32_Witness ==
    /\ nats.concurrent
    /\ ncall[0].n = 2
    /\ ncall[0].pc = "idle"
    /\ nats.subscription # 0
    /\ nlog.pushed > 0
    /\ Cardinality(NatsSubs("push")) = 1

\* C39: the parser of a NATS core subscriber has acknowledgment disabled
\* exactly when the subscriber's ack policy is DoNothing.
C39_AckDisabledIffDoNothing ==
    ncall # <<>> => (nats.is_ack_disabled <=> nats.policy = "DO_NOTHING")

\* positions of a call in the trace of start()
TraceIdx(name) == {i \in DOMAIN trace : trace[i] = name}

\* C33: one start() of a Kafka subscriber calls subscribe at most once and
\* assign at most once and never both: subscribe exactly when topics or a
\* pattern are declared, assign exactly when neither is and partitions are;
\* the binding call precedes the start of the consumer and the launch of the
\* loop task.
C33_OneBinding ==
    spc \in {"starting", "done"} =>
        /\ Cardinality(TraceIdx("subscribe")) + Cardinality(TraceIdx("assign")) <= 1
        /\ TraceIdx("subscribe") # {} <=> (ent.topics # <<>> \/ ent.pattern # <<>>)
        /\ TraceIdx("assign") # {} <=>
              (ent.topics = <<>> /\ ent.pattern = <<>> /\ ent.partitions # <<>>)
        /\ \A i \in TraceIdx("subscribe") \cup TraceIdx("assign") :
           \A j \in TraceIdx("consumer.start") \cup TraceIdx("add_task") : i < j
        /\ consumer = "started" => TraceIdx("consumer.start") # {}

\* a subscriber declaring topics and partitions has started: subscribe was
\* called, assign was not, and the loop task was launched afterwards
C33_Witness ==
    /\ spc = "done"
    /\ ent.topics # <<>>
    /\ ent.partitions # <<>>
    /\ TraceIdx("subscribe") # {}
    /\ TraceIdx("assign") = {}
    /\ TraceIdx("add_task") # {}

\* C36: a Redis list subscriber of any of the three classes runs with the
\* DoNothing policy whatever policy its configuration came with, and no
\* acknowledgement or rejection is ever issued for a message it consumed,
\* the handler having succeeded or failed.
C36_ListAlwaysDoNothing ==
    cfg.backend = "redis" =>
        /\ cfg.policy = "DO_NOTHING"
        /\ \A m \in 1..Len(fetched) : AckIdx(m) = {}

\* a list subscriber configured with RejectOnError has consumed a message
\* whose handler failed
C36_Witness ==
    /\ cfg.backend = "redis"
    /\ cfg.supplied = "REJECT_ON_ERROR"
    /\ \E m \in done : outcome[m] = "fail" /\ HandlerIdx(m) # {}

\* a loop iteration whose fetch returned nothing, in each class: get_msg()
\* gave None or an empty tuple, blpop gave None, lpop gave nothing
EmptyFetchStep ==
    \/ cfg.backend \in Backends /\ ~cfg.batch /\ FetchEmpty
    \/ cfg.backend \in Backends /\ cfg.batch /\ BatchFetchEmpty
    \/ RedisGetMsgs /\ bat' = bat

\* C34: an empty fetch result is benign in every variant: the iteration
\* hands nothing to the handler path or to the fan-out queue, issues no ack
\* or nack, and leaves the loop running at its next fetch; whatever was
\* dispatched, enqueued, handled or acknowledged belongs to a fetch that
\* returned something, and no batch envelope is ever empty.
C34_EmptyFetchBenign ==
    /\ [](bat.fetches > 0 => bat.env # <<>>)
    /\ [](/\ \A i \in DOMAIN log : log[i].m \in 1..Len(fetched)
          /\ \A e \in inflight : e.m \in 1..Len(fetched)
          /\ \A i \in DOMAIN enqueued : enqueued[i] \in 1..Len(fetched))
    /\ [][EmptyFetchStep =>
            /\ UNCHANGED <<log, queue, enqueued, inflight, fetched, outcome, done,
                           bat, running, stopped, closing, msg>>
            /\ pc' = "fetch"]_vars

\* a subscriber is back at its fetch after a fetch that returned nothing
\* (the first fetch failed, the next one came back empty and restored the
\* connected flag), with nothing dispatched
C34_Witness ==
    /\ cfg.backend \in Backends
    /\ failures > 0
    /\ connected
    /\ pc = "fetch"
    /\ running
    /\ fetched = <<>>
    /\ log = <<>>
    /\ inflight = {}

====
